---- MODULE Spec2Model ----
(***************************************************************************)
(* Session lifecycle (login, refresh rotation, logout, forced logout,      *)
(* authenticate) and the authorization gate of the role based admin        *)
(* dashboard backend.                                                      *)
(*                                                                         *)
(* Time is counted in ticks of the issued-at clock of the tokens (the iat  *)
(* claim has a granularity of one second); the two token lifetimes are     *)
(* scaled down to a few ticks and keep their order (access < refresh).     *)
(***************************************************************************)
EXTENDS Integers, FiniteSets, Sequences, TLC

\* ------------------------------------------------------------------ bounds
MaxTime == 3
MaxFamilies == 1
MaxRequired == 2

\* ------------------------------------------------------- program constants
\* config.jwt.accessExpiry ('15m') and config.jwt.refreshExpiry ('7d'), in ticks
AccessExpiry == 1
RefreshExpiry == 3

Users == {"u1", "u2"}
Procs == {"p1", "p2"}
Roles == {"r1", "r2", "r3"}

\* the roles the seeded users hold
SeedRoles == {"r1", "r2"}
Perms == {"USER_READ", "USER_DELETE"}

Orgs == {"o1", "o2"}

\* what a caller can type into the login form
Slugs == {"acme", "globex", "nope"}
Emails == {"a@x", "b@x", "c@x"}
Passwords == {"pw1", "pw2"}

\* the absent value: null / undefined
Null == "null"

\* the organization a user belongs to (User.organizationId)
UserOrg(u) == IF u = "u1" THEN "o1" ELSE "o2"

\* User.email and the password whose hash is User.passwordHash
UserEmail(u) == IF u = "u1" THEN "a@x" ELSE "b@x"

UserPassword(u) == IF u = "u1" THEN "pw1" ELSE "pw2"

\* Role.organizationId (null: a global role) and Role.isSystem: r1 is a role an
\* organization created for itself, r2 a seeded global system role, r3 a global
\* role without the system flag
RoleOrg(r) == IF r = "r1" THEN "o1" ELSE Null

RoleIsSystem(r) == r = "r2"

\* Organization.slug
OrgSlug(o) == IF o = "o1" THEN "acme" ELSE "globex"

VARIABLES
    now,            \* the clock, in ticks
    refreshTokens,  \* the RefreshToken table: a set of rows
    userActive,     \* User.isActive
    nextFamily,     \* the next fresh family id (uuidv4)
    cacheStore,     \* the key-value cache: key -> [value, until]
    pc,             \* position of each request in its handler
    req,            \* the locals of each request
    lastAuth,       \* the last authenticate call: token and outcome
    won,            \* history: <<request, token>> of every rotation answered with a new pair
    replayed,       \* history: tokens whose replay was detected and handled
    forced,         \* history: refresh tokens stored for u when forceLogout(u) ran
    loggedOut,      \* history: access tokens passed to logout before their expiry
    userRoles,      \* the UserRole table: <<user, role>>
    roleActive,     \* Role.isActive
    rolePermissions,\* the RolePermission table: <<role, permission action>>
    permActive,     \* Permission.isActive
    gate,           \* the last authorize call: its request and what it did
    orgActive,      \* Organization.isActive
    lastLogin,      \* history: the last login call, its input and its answer
    lastRefresh,    \* history: the last refresh call, its token and the branch taken
    prevGate,       \* history: the authorize call before the last one
    handled,        \* history: the last request through the middleware chain
    tx,             \* the open transaction of a reassignment and what it has written
    newUsers,       \* the User rows created by register
    lastLogout,     \* history: the last logout call and its tokens
    lastCall,       \* history: the last management call, its subject and its answer
    redis,          \* the entries of a cache server that keeps what it is given
    client          \* the browser client: its two tokens and its requests in flight

vars == <<now, refreshTokens, userActive, nextFamily, cacheStore, pc, req,
          lastAuth, won, replayed, forced, loggedOut,
          userRoles, roleActive, rolePermissions, permActive, gate, orgActive,
          lastLogin, lastRefresh, prevGate, handled,
          tx, newUsers, lastLogout, lastCall, redis, client>>

seen == <<lastLogin, lastRefresh, prevGate, handled, lastLogout, lastCall>>

hist == <<won, replayed, forced, loggedOut, seen>>

\* what lives outside the backend: the cache server and the browser
outside == <<redis, client>>

\* the tables of the tenants, roles and permissions, and the gate's record
stores == <<tx, newUsers>>

rbac == <<userRoles, roleActive, rolePermissions, permActive, gate, orgActive, stores>>

session == <<now, refreshTokens, userActive, nextFamily, cacheStore, pc, req, lastAuth>>

sessionRest == <<now, refreshTokens, userActive, nextFamily, pc, req, lastAuth>>

\* ------------------------------------------------------------------ tokens
\* A token is the signed structure itself: equal claims give equal strings.
NoToken == [sub |-> "-", org |-> "-", fam |-> 0, iat |-> 0, sig |-> "none"]

\* jwt.sign of the refresh claims {sub, organizationId, family} at time t
SignRefresh(u, o, f, t) == [sub |-> u, org |-> o, fam |-> f, iat |-> t, sig |-> "refresh"]

\* jwt.sign of the access claims {sub, email, organizationId} at time t
SignAccess(u, o, t) == [sub |-> u, org |-> o, fam |-> 0, iat |-> t, sig |-> "access"]

\* jwt.verify: the signature is of the given secret and the exp claim is ahead
JwtVerify(tok, secret, lifetime, t) == tok.sig = secret /\ t < tok.iat + lifetime

\* expiryToDate(config.jwt.refreshExpiry)
ExpiryToDate(lifetime, t) == t + lifetime

\* ------------------------------------------------------------------- cache
\* what cache.get resolves to for a key that holds nothing: null
Miss == [hit |-> FALSE, value |-> {}]

\* a cache whose get answers every key with an empty list
CacheGetEmptyList(store, key) == [hit |-> TRUE, value |-> {}]

\* The cache helper: every operation is a no-op, get yields null.
CacheGet(store, key) == Miss

CacheSet(store, key, value, ttl) == store

CacheDelPattern(store, user) == store

\* config.cache.permissionsTTL (300 s), in ticks: shorter than every token lifetime
PermissionsTtl == 1

\* A cache server that keeps what it is given: an entry is a key, its value and
\* the time its TTL runs out.  get answers the value of a live entry or absent,
\* set replaces the entry of the key, delete-by-prefix removes the permission
\* entries of one user ("permissions:<user>:*") or of all ("permissions:*").
RedisGet(store, key, t) ==
    IF \E e \in store : e.key = key /\ t < e.until
    THEN [hit |-> TRUE, value |-> (CHOOSE e \in store : e.key = key /\ t < e.until).value]
    ELSE Miss

RedisSet(store, key, value, ttl, t) ==
    { e \in store : e.key # key } \cup {[key |-> key, value |-> value, until |-> t + ttl]}

RedisDelPattern(store, user) ==
    { e \in store : ~(e.key[1] = "permissions" /\ (user = "*" \/ e.key[2] = user)) }

\* ------------------------------------------------------ RefreshToken table
RowOf(tok) == CHOOSE r \in refreshTokens : r.token = tok

Stored(tok) == \E r \in refreshTokens : r.token = tok

\* prisma.refreshToken.update({ where: { id }, data: { isRevoked: true } })
RevokeById(rows, tok) ==
    { IF r.token = tok THEN [r EXCEPT !.isRevoked = TRUE] ELSE r : r \in rows }

\* a family revocation that reaches only rows already revoked
RevokeFamilyRevokedOnly(rows, fam) ==
    { IF r.family = fam /\ r.isRevoked THEN [r EXCEPT !.isRevoked = TRUE] ELSE r : r \in rows }

\* prisma.refreshToken.updateMany({ where: { family }, data: { isRevoked: true } })
RevokeFamily(rows, fam) ==
    { IF r.family = fam THEN [r EXCEPT !.isRevoked = TRUE] ELSE r : r \in rows }

\* a logout that revokes the token whoever owns it
RevokeTokenAnyOwner(rows, tok, u) ==
    { IF r.token = tok THEN [r EXCEPT !.isRevoked = TRUE] ELSE r : r \in rows }

\* a logout that deletes the matching rows instead of marking them
DeleteToken(rows, tok, u) ==
    { r \in rows : ~(r.token = tok /\ r.userId = u) }

\* prisma.refreshToken.updateMany({ where: { token, userId }, data: { isRevoked: true } })
RevokeToken(rows, tok, u) ==
    { IF r.token = tok /\ r.userId = u THEN [r EXCEPT !.isRevoked = TRUE] ELSE r : r \in rows }

\* a forced logout whose filter selects the rows that are already revoked
RevokeUserRevokedOnly(rows, u) ==
    { IF r.userId = u /\ r.isRevoked THEN [r EXCEPT !.isRevoked = TRUE] ELSE r : r \in rows }

\* prisma.refreshToken.updateMany({ where: { userId, isRevoked: false }, data: { isRevoked: true } })
RevokeUser(rows, u) ==
    { IF r.userId = u /\ ~r.isRevoked THEN [r EXCEPT !.isRevoked = TRUE] ELSE r : r \in rows }

\* the row prisma.refreshToken.create writes in _generateTokenPair
NewRow(tok, u, fam, t) ==
    [token |-> tok, userId |-> u, family |-> fam,
     expiresAt |-> ExpiryToDate(RefreshExpiry, t), isRevoked |-> FALSE]

ActiveOfFamily(rows, fam) == { r \in rows : r.family = fam /\ ~r.isRevoked }

\* the access token signed together with a stored refresh token
AccessOf(tok) == SignAccess(tok.sub, tok.org, tok.iat)

IssuedAccess == { AccessOf(r.token) : r \in refreshTokens }

\* ----------------------------------------------------------------- locals
Idle == [op |-> "none", tok |-> NoToken, user |-> "-", newTok |-> NoToken,
         pending |-> {}, failed |-> FALSE, email |-> "-", org |-> "-", role |-> "-"]

NoGate == [user |-> "-", required |-> << >>, userPermissions |-> {}, out |-> "none"]

NoLogin == [slug |-> "-", email |-> "-", password |-> "-", out |-> "none", n |-> 0]

NoRefresh == [tok |-> NoToken, out |-> "none", at |-> 0, n |-> 0]

NoRequest == [tok |-> NoToken, claimed |-> "-", required |-> << >>,
              user |-> Null, tenant |-> Null, out |-> "none", n |-> 0]

NoTx == [op |-> "none", key |-> "-", ids |-> {}, before |-> {}, rows |-> {}, step |-> "none"]

NoLogout == [access |-> NoToken, refresh |-> NoToken, ttl |-> 0, n |-> 0]

NoCall == [op |-> "none", subject |-> "-", tenant |-> "-", ran |-> << >>, out |-> "none", n |-> 0]

\* the browser client before login: no tokens, no request in flight
NoClient == [access |-> NoToken, refresh |-> NoToken,
             at |-> [p \in Procs |-> "idle"], sent |-> [p \in Procs |-> NoToken],
             refreshes |-> [p \in Procs |-> 0], retries |-> [p \in Procs |-> 0]]

Init ==
    /\ now = 0
    /\ refreshTokens = {}
    /\ userActive = [u \in Users |-> TRUE]
    /\ nextFamily = 1
    /\ cacheStore = << >>
    /\ pc = [p \in Procs |-> "idle"]
    /\ req = [p \in Procs |-> Idle]
    /\ lastAuth = [tok |-> NoToken, out |-> "none"]
    /\ won = {}
    /\ replayed = {}
    /\ forced = {}
    /\ loggedOut = {}
    /\ userRoles = {<<"u1", "r1">>, <<"u2", "r2">>}
    /\ roleActive = [r \in Roles |-> TRUE]
    /\ rolePermissions = {<<"r1", "USER_READ">>, <<"r2", "USER_READ">>, <<"r2", "USER_DELETE">>}
    /\ permActive = [a \in Perms |-> TRUE]
    /\ gate = NoGate
    /\ orgActive = [o \in Orgs |-> TRUE]
    /\ lastLogin = NoLogin
    /\ lastRefresh = NoRefresh
    /\ prevGate = [g |-> NoGate, n |-> 0]
    /\ handled = NoRequest
    /\ tx = NoTx
    /\ newUsers = {}
    /\ lastLogout = NoLogout
    /\ lastCall = NoCall
    /\ redis = {}
    /\ client = NoClient

\* ------------------------------------------------------------------- clock
Tick ==
    /\ now < MaxTime
    /\ now' = now + 1
    /\ UNCHANGED <<refreshTokens, userActive, nextFamily, cacheStore, pc, req, lastAuth, rbac>>

\* ------------------------------------------------------------------- login
\* prisma.organization.findUnique({ where: { slug } })
OrgBySlug(slug) ==
    IF \E o \in Orgs : OrgSlug(o) = slug
    THEN CHOOSE o \in Orgs : OrgSlug(o) = slug
    ELSE Null

\* prisma.user.findUnique({ where: { email_organizationId } })
UserByEmail(email, o) ==
    IF \E u \in Users : UserEmail(u) = email /\ UserOrg(u) = o
    THEN CHOOSE u \in Users : UserEmail(u) = email /\ UserOrg(u) = o
    ELSE Null

\* a comparison that accepts every password
BcryptCompareAny(password, u) == TRUE

\* bcrypt.compare(password, user.passwordHash)
BcryptCompare(password, u) == password = UserPassword(u)

\* a login that does not look at the user's active flag
LoginCheckAnyUser(slug, email, password) ==
    LET o == OrgBySlug(slug)
        u == UserByEmail(email, o)
    IN IF o = Null THEN "NotFound:Organization"
       ELSE IF ~orgActive[o] THEN "NotFound:Organization"
       ELSE IF u = Null THEN "Unauthorized:Invalid credentials"
       ELSE IF ~BcryptCompare(password, u) THEN "Unauthorized:Invalid credentials"
       ELSE "ok"

\* the checks of AuthService.login, in the order the code makes them
LoginCheck(slug, email, password) ==
    LET o == OrgBySlug(slug)
        u == UserByEmail(email, o)
    IN IF o = Null THEN "NotFound:Organization"
       ELSE IF ~orgActive[o] THEN "NotFound:Organization"
       ELSE IF u = Null THEN "Unauthorized:Invalid credentials"
       ELSE IF ~userActive[u] THEN "Unauthorized:Invalid credentials"
       ELSE IF ~BcryptCompare(password, u) THEN "Unauthorized:Invalid credentials"
       ELSE "ok"

\* AuthService.login up to the password check
LoginStart(p, slug, email, password) ==
    /\ pc[p] = "idle"
    /\ nextFamily <= MaxFamilies
    /\ IF LoginCheck(slug, email, password) # "ok"
       THEN /\ pc' = pc
            /\ req' = req
       ELSE /\ pc' = [pc EXCEPT ![p] = "login_issue"]
            /\ req' = [req EXCEPT ![p] =
                   [Idle EXCEPT !.op = "login",
                                !.user = UserByEmail(email, OrgBySlug(slug))]]
    /\ UNCHANGED <<now, refreshTokens, userActive, nextFamily, cacheStore, lastAuth, rbac>>

\* AuthService.login from _generateTokenPair on: a fresh family, one new row,
\* then the awaited update of lastLoginAt, which succeeds or throws
LoginIssue(p, recordOk) ==
    /\ pc[p] = "login_issue"
    /\ LET u == req[p].user
           tok == SignRefresh(u, UserOrg(u), nextFamily, now)
       IN /\ refreshTokens' = refreshTokens \cup {NewRow(tok, u, nextFamily, now)}
          /\ req' = [req EXCEPT ![p] = Idle]
    /\ nextFamily' = nextFamily + 1
    /\ pc' = [pc EXCEPT ![p] = "idle"]
    /\ UNCHANGED <<now, userActive, cacheStore, lastAuth, rbac>>

\* what login answers once the pair is issued: the update of lastLoginAt is
\* awaited outside any try block, so its failure is the failure of the call
LoginAnswer(recordOk) == IF recordOk THEN "ok" ELSE "error:lastLoginAt"

\* ----------------------------------------------------------------- refresh
\* a rotation that passes no family to the issuer, which then draws a new one
RotatedTokenNewFamily(stored, decoded, t) ==
    SignRefresh(stored.userId, decoded.org, nextFamily, t)

\* the refresh token of _generateTokenPair(storedToken.user,
\* decoded.organizationId, storedToken.family)
RotatedToken(stored, decoded, t) ==
    SignRefresh(stored.userId, decoded.org, stored.family, t)

\* a refresh that checks the signature and the record but no expiry
RefreshCheckNoExpiry(tok) ==
    IF tok.sig # "refresh" THEN "invalid"
    ELSE IF ~Stored(tok) THEN "notfound"
    ELSE IF RowOf(tok).isRevoked THEN "replay"
    ELSE IF ~userActive[RowOf(tok).userId] THEN "deactivated"
    ELSE "rotate"

\* a refresh that looks the record up without verifying the token
RefreshCheckNoVerify(tok) ==
    IF ~Stored(tok) THEN "notfound"
    ELSE IF RowOf(tok).isRevoked THEN "replay"
    ELSE IF now > RowOf(tok).expiresAt THEN "expired"
    ELSE IF ~userActive[RowOf(tok).userId] THEN "deactivated"
    ELSE "rotate"

\* a refresh that does not look at the owner's active flag
RefreshCheckAnyUser(tok) ==
    IF ~JwtVerify(tok, "refresh", RefreshExpiry, now) THEN "invalid"
    ELSE IF ~Stored(tok) THEN "notfound"
    ELSE IF RowOf(tok).isRevoked THEN "replay"
    ELSE IF now > RowOf(tok).expiresAt THEN "expired"
    ELSE "rotate"

\* a refresh that checks the owner before it checks the revoked flag
RefreshCheckUserFirst(tok) ==
    IF ~JwtVerify(tok, "refresh", RefreshExpiry, now) THEN "invalid"
    ELSE IF ~Stored(tok) THEN "notfound"
    ELSE IF ~userActive[RowOf(tok).userId] THEN "deactivated"
    ELSE IF RowOf(tok).isRevoked THEN "replay"
    ELSE IF now > RowOf(tok).expiresAt THEN "expired"
    ELSE "rotate"

\* The branch AuthService.refresh takes for a presented token
RefreshCheck(tok) ==
    IF ~JwtVerify(tok, "refresh", RefreshExpiry, now) THEN "invalid"
    ELSE IF ~Stored(tok) THEN "notfound"
    ELSE IF RowOf(tok).isRevoked THEN "replay"
    ELSE IF now > RowOf(tok).expiresAt THEN "expired"
    ELSE IF ~userActive[RowOf(tok).userId] THEN "deactivated"
    ELSE "rotate"

\* AuthService.refresh: verify, look the record up, check it, sign the new pair
RefreshStart(p, tok) ==
    /\ pc[p] = "idle"
    /\ LET d == RefreshCheck(tok)
           base == [Idle EXCEPT !.op = "refresh", !.tok = tok]
       IN CASE d = "replay" ->
                 /\ pc' = [pc EXCEPT ![p] = "refresh_replay"]
                 /\ req' = [req EXCEPT ![p] = base]
            [] d = "rotate" ->
                 /\ pc' = [pc EXCEPT ![p] = "refresh_rotate"]
                 /\ req' = [req EXCEPT ![p] =
                        [base EXCEPT !.user = RowOf(tok).userId,
                                     !.newTok = RotatedToken(RowOf(tok), tok, now),
                                     !.pending = {"revoke", "create"}]]
            [] OTHER ->
                 /\ pc' = pc
                 /\ req' = req
    /\ UNCHANGED <<now, refreshTokens, userActive, nextFamily, cacheStore, lastAuth, rbac>>

\* replay detection: the whole family is revoked, then the request fails
RefreshReplay(p) ==
    /\ pc[p] = "refresh_replay"
    /\ refreshTokens' = RevokeFamily(refreshTokens, RowOf(req[p].tok).family)
    /\ pc' = [pc EXCEPT ![p] = "idle"]
    /\ req' = [req EXCEPT ![p] = Idle]
    /\ UNCHANGED <<now, userActive, nextFamily, cacheStore, lastAuth, rbac>>

\* what Promise.all settles to once both statements have run
RotateSettle(p, left, failedNow) ==
    IF left # {} THEN
        /\ pc' = pc
        /\ req' = [req EXCEPT ![p].pending = left, ![p].failed = failedNow]
    ELSE
        /\ pc' = [pc EXCEPT ![p] = "idle"]
        /\ req' = [req EXCEPT ![p] = Idle]

\* rotation, first statement of Promise.all: revoke the presented record
RefreshRevokeOld(p) ==
    /\ pc[p] = "refresh_rotate"
    /\ "revoke" \in req[p].pending
    /\ refreshTokens' = RevokeById(refreshTokens, req[p].tok)
    /\ RotateSettle(p, req[p].pending \ {"revoke"}, req[p].failed)
    /\ UNCHANGED <<now, userActive, nextFamily, cacheStore, lastAuth, rbac>>

\* rotation, second statement of Promise.all: _generateTokenPair persists the
\* new refresh token; the token column is unique
RefreshCreateNew(p) ==
    /\ pc[p] = "refresh_rotate"
    /\ "create" \in req[p].pending
    /\ IF Stored(req[p].newTok)
       THEN /\ refreshTokens' = refreshTokens
            /\ RotateSettle(p, req[p].pending \ {"create"}, TRUE)
       ELSE /\ refreshTokens' = refreshTokens \cup
                    {NewRow(req[p].newTok, req[p].user, req[p].newTok.fam,
                            req[p].newTok.iat)}
            /\ RotateSettle(p, req[p].pending \ {"create"}, req[p].failed)
    /\ UNCHANGED <<now, userActive, nextFamily, cacheStore, lastAuth, rbac>>

\* the process stops between the two statements of the rotation
RefreshAbort(p) ==
    /\ pc[p] = "refresh_rotate"
    /\ Cardinality(req[p].pending) = 1
    /\ pc' = [pc EXCEPT ![p] = "idle"]
    /\ req' = [req EXCEPT ![p] = Idle]
    /\ UNCHANGED <<now, refreshTokens, userActive, nextFamily, cacheStore, lastAuth, rbac>>

\* ------------------------------------------------------------ authenticate
\* the authenticate middleware for a presented bearer token
AuthenticateCheck(tok) ==
    IF ~JwtVerify(tok, "access", AccessExpiry, now) THEN "Unauthorized:invalid"
    ELSE IF CacheGet(cacheStore, <<"blacklist", tok>>).hit
         THEN "Unauthorized:Token has been revoked"
    ELSE "ok"

Authenticate(tok) ==
    /\ lastAuth' = [tok |-> tok, out |-> AuthenticateCheck(tok)]
    /\ UNCHANGED <<now, refreshTokens, userActive, nextFamily, cacheStore, pc, req, rbac>>

\* what cache.get of the blacklist key settles with: nothing, an entry, or a
\* rejection when the cache cannot be reached
Lookups == {"null", "true", "error"}

NoUser == [id |-> "-", organizationId |-> "-"]

\* an authenticate that turns away every request while the cache cannot be reached
AuthenticateFailClosed(tok, lookup) ==
    IF ~JwtVerify(tok, "access", AccessExpiry, now) \/ lookup = "error"
    THEN [out |-> "Unauthorized:invalid", user |-> NoUser]
    ELSE IF lookup = "true"
         THEN [out |-> "Unauthorized:Token has been revoked", user |-> NoUser]
    ELSE [out |-> "ok", user |-> [id |-> tok.sub, organizationId |-> tok.org]]

\* authenticate by the way its lookup settles: jwt.verify first, then the
\* then-branch (an entry refuses, none lets through) or the catch-branch
AuthenticateOn(tok, lookup) ==
    IF ~JwtVerify(tok, "access", AccessExpiry, now)
    THEN [out |-> "Unauthorized:invalid", user |-> NoUser]
    ELSE IF lookup = "true"
         THEN [out |-> "Unauthorized:Token has been revoked", user |-> NoUser]
    ELSE [out |-> "ok", user |-> [id |-> tok.sub, organizationId |-> tok.org]]

AuthenticateLookup(tok, lookup) ==
    /\ lastAuth' = [tok |-> tok, out |-> AuthenticateOn(tok, lookup).out]
    /\ UNCHANGED <<now, refreshTokens, userActive, nextFamily, cacheStore, pc, req, rbac>>

\* ------------------------------------------------------------------ logout
\* the remaining lifetime AuthService.logout computes from the exp claim
RemainingTtl(access) == (access.iat + AccessExpiry) - now

\* POST /auth/logout: authenticate, then AuthService.logout with the bearer
\* token, the refresh token of the body and req.user.id
Logout(access, refresh) ==
    /\ AuthenticateCheck(access) = "ok"
    /\ cacheStore' = IF RemainingTtl(access) > 0
                     THEN CacheSet(cacheStore, <<"blacklist", access>>, {"1"}, RemainingTtl(access))
                     ELSE cacheStore
    /\ refreshTokens' = IF refresh # NoToken
                        THEN RevokeToken(refreshTokens, refresh, access.sub)
                        ELSE refreshTokens
    /\ UNCHANGED <<now, userActive, nextFamily, pc, req, lastAuth, rbac>>

\* AuthService.forceLogout
ForceLogout(u) ==
    /\ refreshTokens' = RevokeUser(refreshTokens, u)
    /\ cacheStore' = CacheDelPattern(cacheStore, u)
    /\ UNCHANGED <<now, userActive, nextFamily, pc, req, lastAuth, rbac>>

\* ------------------------------------------------------------------- users
\* a deactivation that also ends the sessions of the user
DeactivateUserRevoking(u) ==
    /\ userActive[u]
    /\ userActive' = [userActive EXCEPT ![u] = FALSE]
    /\ refreshTokens' = RevokeUser(refreshTokens, u)
    /\ cacheStore' = CacheDelPattern(cacheStore, u)
    /\ UNCHANGED <<now, nextFamily, pc, req, lastAuth, rbac>>

\* UserService.deactivateUser / activateUser
DeactivateUser(u) ==
    /\ userActive[u]
    /\ userActive' = [userActive EXCEPT ![u] = FALSE]
    /\ cacheStore' = CacheDelPattern(cacheStore, u)
    /\ UNCHANGED <<now, refreshTokens, nextFamily, pc, req, lastAuth, rbac>>

ActivateUser(u) ==
    /\ ~userActive[u]
    /\ userActive' = [userActive EXCEPT ![u] = TRUE]
    /\ UNCHANGED <<now, refreshTokens, nextFamily, cacheStore, pc, req, lastAuth, rbac>>

\* ------------------------------------------------------ authorization gate
\* a flattening that keeps the permissions of inactive roles
ResolveIgnoringRoleState(u) ==
    LET roles == { ur[2] : ur \in { x \in userRoles : x[1] = u } }
    IN { rp[2] : rp \in { x \in rolePermissions : x[1] \in roles /\ permActive[x[2]] } }

\* The flattening of authorize: the actions of the active permissions of the
\* active roles assigned to the user, without duplicates.
ResolvePermissions(u) ==
    LET activeRoles == { ur[2] : ur \in { x \in userRoles : x[1] = u /\ roleActive[x[2]] } }
    IN { rp[2] : rp \in { x \in rolePermissions : x[1] \in activeRoles /\ permActive[x[2]] } }

\* a resolver that keeps serving what it resolved for the user the last time
UserPermissionsKept(u, o) ==
    IF gate.user = u THEN gate.userPermissions ELSE ResolvePermissions(u)

\* the permission set authorize works with: the cached one, else the resolved one
UserPermissions(u, o) ==
    LET cached == CacheGet(cacheStore, <<"permissions", u, o>>)
    IN IF cached.hit THEN cached.value ELSE ResolvePermissions(u)

\* userPermissions.includes(perm)
Includes(perms, perm) == perm \in perms

\* a gate that lets every request through a route declared without permissions
HasPermissionOrNoneRequired(required, perms) ==
    Len(required) = 0 \/ \E i \in 1..Len(required) : Includes(perms, required[i])

\* a gate that asks for every listed permission: requiredPermissions.every(...)
HasEveryPermission(required, perms) ==
    \A i \in 1..Len(required) : Includes(perms, required[i])

\* requiredPermissions.some((perm) => userPermissions.includes(perm))
HasPermission(required, perms) ==
    \E i \in 1..Len(required) : Includes(perms, required[i])

\* what authorize(...required) does with the request of user u of organization o:
\* the permissions it attaches to the request and what it hands to next
AuthorizeResult(u, o, required) ==
    LET perms == UserPermissions(u, o)
    IN [user |-> u, required |-> required, userPermissions |-> perms,
        out |-> IF HasPermission(required, perms) THEN "next" ELSE "Forbidden"]

\* the middleware authorize(...required) returns, run for the user of the token
Authorize(u, required) ==
    /\ cacheStore' = CacheSet(cacheStore, <<"permissions", u, UserOrg(u)>>,
                              UserPermissions(u, UserOrg(u)), 300)
    /\ gate' = AuthorizeResult(u, UserOrg(u), required)
    /\ UNCHANGED <<now, refreshTokens, userActive, nextFamily, pc, req, lastAuth>>
    /\ UNCHANGED <<userRoles, roleActive, rolePermissions, permActive, orgActive, stores>>

\* ------------------------------------------- role and permission management
\* a lookup that finds the roles of every tenant
RoleVisibleAnywhere(r, o) == TRUE

\* roleRepository.findById: the role is the tenant's own or a global one
RoleVisible(r, o) == RoleOrg(r) = o \/ RoleOrg(r) = Null

\* UserService.assignRoles(userId, organizationId, roleIds): the user is looked
\* up in the tenant, every role must be active and visible to the tenant, then
\* the user's roles are replaced in one transaction
AssignRoles(u, o, roleIds) ==
    /\ IF UserOrg(u) = o /\ \A r \in roleIds : roleActive[r] /\ RoleVisible(r, o)
       THEN /\ userRoles' = { x \in userRoles : x[1] # u } \cup { <<u, r>> : r \in roleIds }
            /\ cacheStore' = CacheDelPattern(cacheStore, u)
       ELSE UNCHANGED <<userRoles, cacheStore>>
    /\ UNCHANGED <<roleActive, rolePermissions, permActive, gate, orgActive, stores, sessionRest>>

\* RoleService.updateRole(id, organizationId, { isActive })
UpdateRole(r, o, active) ==
    /\ IF RoleVisible(r, o) /\ ~RoleIsSystem(r) /\ RoleOrg(r) # Null
       THEN /\ roleActive' = [roleActive EXCEPT ![r] = active]
            /\ cacheStore' = CacheDelPattern(cacheStore, "*")
       ELSE UNCHANGED <<roleActive, cacheStore>>
    /\ UNCHANGED <<userRoles, rolePermissions, permActive, gate, orgActive, stores, sessionRest>>

\* RoleService.deleteRole(id, organizationId): a soft delete
DeleteRole(r, o) ==
    /\ IF RoleVisible(r, o) /\ ~RoleIsSystem(r) /\ RoleOrg(r) # Null
       THEN /\ roleActive' = [roleActive EXCEPT ![r] = FALSE]
            /\ cacheStore' = CacheDelPattern(cacheStore, "*")
       ELSE UNCHANGED <<roleActive, cacheStore>>
    /\ UNCHANGED <<userRoles, rolePermissions, permActive, gate, orgActive, stores, sessionRest>>

\* RoleService.assignPermissions(roleId, organizationId, permissionIds): the
\* permissions of the role are replaced by the active ones among those listed
AssignPermissions(r, o, permIds) ==
    /\ IF RoleVisible(r, o) /\ ~RoleIsSystem(r)
       THEN /\ rolePermissions' = { x \in rolePermissions : x[1] # r } \cup
                                  { <<r, a>> : a \in { b \in permIds : permActive[b] } }
            /\ cacheStore' = CacheDelPattern(cacheStore, "*")
       ELSE UNCHANGED <<rolePermissions, cacheStore>>
    /\ UNCHANGED <<userRoles, roleActive, permActive, gate, orgActive, stores, sessionRest>>

\* what updateRole and deleteRole answer: the role must be visible to the
\* tenant, must not be a system role and must not be a global one
UpdateRoleAnswer(r, o) ==
    IF ~RoleVisible(r, o) THEN "NotFound"
    ELSE IF RoleIsSystem(r) THEN "Forbidden"
    ELSE IF RoleOrg(r) = Null THEN "Forbidden"
    ELSE "ok"

\* what assignPermissions answers: the role must be visible to the tenant and
\* must not be a system role
AssignPermissionsAnswer(r, o) ==
    IF ~RoleVisible(r, o) THEN "NotFound"
    ELSE IF RoleIsSystem(r) THEN "Forbidden"
    ELSE "ok"

\* ---------------------------------------- the reassignments, statement by statement
\* a store in which the writes of an open transaction reach the table at once
WrittenThrough(table, written) == written

\* prisma.$transaction(async (tx) => ...): what the table holds for every other
\* connection while the transaction has written but not committed
Committed(table, written) == table

\* userRepository.assignRoles up to the validation of the role ids: the
\* transaction opens when the user is the tenant's and every role is valid
AssignRolesBegin(u, o, roleIds) ==
    /\ tx.op = "none"
    /\ UserOrg(u) = o
    /\ \A r \in roleIds : roleActive[r] /\ RoleVisible(r, o)
    /\ tx' = [op |-> "assignRoles", key |-> u, ids |-> roleIds,
              before |-> userRoles, rows |-> userRoles, step |-> "delete"]
    /\ UNCHANGED <<userRoles, roleActive, rolePermissions, permActive, gate, orgActive,
                   newUsers, session>>

\* roleRepository.assignPermissions up to the selection of the valid permissions
AssignPermissionsBegin(r, o, permIds) ==
    /\ tx.op = "none"
    /\ RoleVisible(r, o)
    /\ ~RoleIsSystem(r)
    /\ tx' = [op |-> "assignPermissions", key |-> r,
              ids |-> { b \in permIds : permActive[b] },
              before |-> rolePermissions, rows |-> rolePermissions, step |-> "delete"]
    /\ UNCHANGED <<userRoles, roleActive, rolePermissions, permActive, gate, orgActive,
                   newUsers, session>>

\* one statement of the open transaction leaves the rows `written` behind
TxWrite(written, nextStep) ==
    /\ tx' = [tx EXCEPT !.rows = written, !.step = nextStep]
    /\ IF tx.op = "assignRoles"
       THEN /\ userRoles' = Committed(userRoles, written)
            /\ rolePermissions' = rolePermissions
       ELSE /\ rolePermissions' = Committed(rolePermissions, written)
            /\ userRoles' = userRoles
    /\ UNCHANGED <<roleActive, permActive, gate, orgActive, newUsers, session>>

\* tx.userRole.deleteMany({ where: { userId } }) / tx.rolePermission.deleteMany
TxDeleteMany ==
    /\ tx.step = "delete"
    /\ TxWrite({ x \in tx.rows : x[1] # tx.key }, "create")

\* tx.userRole.createMany / tx.rolePermission.createMany
TxCreateMany ==
    /\ tx.step = "create"
    /\ TxWrite(tx.rows \cup { <<tx.key, i>> : i \in tx.ids }, "commit")

\* the transaction commits, then the service invalidates the permission cache
TxCommit ==
    /\ tx.step = "commit"
    /\ IF tx.op = "assignRoles"
       THEN /\ userRoles' = tx.rows
            /\ rolePermissions' = rolePermissions
            /\ cacheStore' = CacheDelPattern(cacheStore, tx.key)
       ELSE /\ rolePermissions' = tx.rows
            /\ userRoles' = userRoles
            /\ cacheStore' = CacheDelPattern(cacheStore, "*")
    /\ tx' = NoTx
    /\ UNCHANGED <<roleActive, permActive, gate, orgActive, newUsers, sessionRest>>

\* PermissionService.updatePermission(id, { isActive })
UpdatePermission(a, active) ==
    /\ permActive' = [permActive EXCEPT ![a] = active]
    /\ cacheStore' = CacheDelPattern(cacheStore, "*")
    /\ UNCHANGED <<userRoles, roleActive, rolePermissions, gate, orgActive, stores, sessionRest>>

\* OrganizationService.updateOrganization(id, { isActive })
UpdateOrganization(o, active) ==
    /\ orgActive' = [orgActive EXCEPT ![o] = active]
    /\ UNCHANGED <<userRoles, roleActive, rolePermissions, permActive, gate, stores, session>>

\* ------------------------------------ the gate in front of a cache server
\* what assignRoles answers: the user must be one of the tenant, every role
\* asked for must be active and the tenant's own or a global one
AssignRolesAnswer(u, o, roleIds) ==
    IF UserOrg(u) # o THEN "NotFound"
    ELSE IF \E r \in roleIds : ~(roleActive[r] /\ RoleVisible(r, o)) THEN "BadRequest"
    ELSE "ok"

\* a service that clears every permission entry whatever it has changed
InvalidatedByAll(op, subject) == "*"

\* the pattern a management operation hands to cache.delPattern once it has
\* written: the entries of its user, or every permission entry
InvalidatedBy(op, subject) ==
    IF op \in {"assignRoles", "deactivateUser", "forceLogout"} THEN subject ELSE "*"

\* authorize up to its read of the tables: the cached list is taken when there
\* is one, else the user's roles are read and flattened
AuthorizeLookup(p, u, required) ==
    LET cached == RedisGet(redis, <<"permissions", u, UserOrg(u)>>, now)
    IN /\ pc[p] = "idle"
       /\ IF cached.hit
          THEN /\ gate' = [user |-> u, required |-> required, userPermissions |-> cached.value,
                           out |-> IF HasPermission(required, cached.value)
                                   THEN "next" ELSE "Forbidden"]
               /\ UNCHANGED <<pc, req>>
          ELSE /\ pc' = [pc EXCEPT ![p] = "authorize"]
               /\ req' = [req EXCEPT ![p] = [Idle EXCEPT !.op = "authorize", !.user = u,
                                                         !.pending = ResolvePermissions(u)]]
               /\ UNCHANGED gate
       /\ UNCHANGED <<now, refreshTokens, userActive, nextFamily, cacheStore, lastAuth, redis>>
       /\ UNCHANGED <<userRoles, roleActive, rolePermissions, permActive, orgActive, stores>>

\* authorize from cache.set on: the list it read is cached and decides
AuthorizeStore(p, required) ==
    LET u == req[p].user
        perms == req[p].pending
    IN /\ pc[p] = "authorize"
       /\ redis' = RedisSet(redis, <<"permissions", u, UserOrg(u)>>, perms, PermissionsTtl, now)
       /\ gate' = [user |-> u, required |-> required, userPermissions |-> perms,
                   out |-> IF HasPermission(required, perms) THEN "next" ELSE "Forbidden"]
       /\ pc' = [pc EXCEPT ![p] = "idle"]
       /\ req' = [req EXCEPT ![p] = Idle]
       /\ UNCHANGED <<now, refreshTokens, userActive, nextFamily, cacheStore, lastAuth>>
       /\ UNCHANGED <<userRoles, roleActive, rolePermissions, permActive, orgActive, stores>>

\* the cache server after a management call: its entries are removed by the
\* pattern of the operation when the operation has written
Invalidate(op, subject, out) ==
    redis' = IF out = "ok" THEN RedisDelPattern(redis, InvalidatedBy(op, subject)) ELSE redis

\* ---------------------------------------------------------------- register
\* the ids register can draw for a new user (uuid)
NewIds == {"n1", "n2", "n3", "n4", "n5", "n6", "n7", "n8"}

\* the User table: the seeded users and the ones register created
UserRows ==
    { [id |-> u, email |-> UserEmail(u), organizationId |-> UserOrg(u)] : u \in Users }
        \cup newUsers

\* prisma.user.findUnique({ where: { email_organizationId } }) finds a row
ExistingUser(rows, email, o) ==
    \E x \in rows : x.email = email /\ x.organizationId = o

\* a User table without the unique index on (email, organizationId)
NoUniqueIndex(rows, email, o) == FALSE

\* tx.user.create fails on the unique index email_organizationId (P2002)
UniqueViolation(rows, email, o) ==
    \E x \in rows : x.email = email /\ x.organizationId = o

\* Role.name: r2 is the seeded role named USER
RoleName(r) == IF r = "r2" THEN "USER" ELSE IF r = "r1" THEN "EDITOR" ELSE "SHARED"

\* prisma.role.findFirst({ name: 'USER', the tenant's or global, isActive })
DefaultRole(o) ==
    LET found == { r \in Roles : RoleName(r) = "USER" /\ RoleVisible(r, o) /\ roleActive[r] }
    IN IF found = {} THEN Null ELSE CHOOSE r \in found : TRUE

\* the checks of AuthService.register before the user is created
RegisterCheck(slug, email) ==
    LET o == OrgBySlug(slug)
    IN IF o = Null THEN "NotFound:Organization"
       ELSE IF ~orgActive[o] THEN "NotFound:Organization"
       ELSE IF ExistingUser(UserRows, email, o) THEN "Conflict"
       ELSE "ok"

\* AuthService.register up to the lookup of the default role
RegisterStart(p, slug, email) ==
    /\ pc[p] = "idle"
    /\ IF RegisterCheck(slug, email) # "ok"
       THEN /\ pc' = pc
            /\ req' = req
       ELSE /\ pc' = [pc EXCEPT ![p] = "register_create"]
            /\ req' = [req EXCEPT ![p] =
                   [Idle EXCEPT !.op = "register", !.email = email,
                                !.org = OrgBySlug(slug),
                                !.role = DefaultRole(OrgBySlug(slug))]]
    /\ UNCHANGED <<now, refreshTokens, userActive, nextFamily, cacheStore, lastAuth, rbac>>

\* what the transaction of register answers: the unique index refuses a
\* second row for the pair, and the error handler turns that into a conflict
RegisterAnswer(p) ==
    IF UniqueViolation(UserRows, req[p].email, req[p].org) THEN "Conflict" ELSE "created"

\* the transaction of AuthService.register: the user row and the row of its
\* default role are written together or not at all
RegisterCreate(p) ==
    /\ pc[p] = "register_create"
    /\ IF RegisterAnswer(p) = "Conflict"
       THEN UNCHANGED <<newUsers, userRoles>>
       ELSE LET id == CHOOSE i \in NewIds : \A x \in newUsers : x.id # i
            IN /\ newUsers' = newUsers \cup
                       {[id |-> id, email |-> req[p].email, organizationId |-> req[p].org]}
               /\ userRoles' = IF req[p].role = Null THEN userRoles
                                ELSE userRoles \cup {<<id, req[p].role>>}
    /\ pc' = [pc EXCEPT ![p] = "idle"]
    /\ req' = [req EXCEPT ![p] = Idle]
    /\ UNCHANGED <<now, refreshTokens, userActive, nextFamily, cacheStore, lastAuth>>
    /\ UNCHANGED <<roleActive, rolePermissions, permActive, gate, orgActive, tx>>

\* ---------------------------------------------------------- middleware chain
\* A request is the bearer token it carries and the organization id the caller
\* writes into a header, a URL parameter or a body field ("-": none).
\* req.user as authenticate sets it from the verified claims
ReqUser(r) == [id |-> r.token.sub, organizationId |-> r.token.org]

\* a tenant resolution that prefers the organization the caller names
ResolveTenantFromCaller(r) ==
    LET o == IF r.claimed # "-" THEN r.claimed ELSE ReqUser(r).organizationId
    IN IF o \notin Orgs THEN [tenant |-> Null, out |-> "NotFound:Organization"]
       ELSE IF ~orgActive[o]
            THEN [tenant |-> Null, out |-> "Forbidden:Organization is deactivated"]
       ELSE [tenant |-> o, out |-> "next"]

\* resolveTenant: the organization of req.user is looked up and must be active
ResolveTenant(r) ==
    LET o == ReqUser(r).organizationId
    IN IF o = "-" THEN [tenant |-> Null, out |-> "Forbidden:No organization context"]
       ELSE IF o \notin Orgs THEN [tenant |-> Null, out |-> "NotFound:Organization"]
       ELSE IF ~orgActive[o]
            THEN [tenant |-> Null, out |-> "Forbidden:Organization is deactivated"]
       ELSE [tenant |-> o, out |-> "next"]

\* router.use(authenticate, resolveTenant), then authorize(...required): the
\* identity, the tenant and the answer the chain gives the request
Chain(r, required) ==
    IF AuthenticateCheck(r.token) # "ok"
    THEN [user |-> Null, tenant |-> Null, out |-> AuthenticateCheck(r.token)]
    ELSE IF ResolveTenant(r).out # "next"
    THEN [user |-> ReqUser(r).id, tenant |-> Null, out |-> ResolveTenant(r).out]
    ELSE [user |-> ReqUser(r).id, tenant |-> ResolveTenant(r).tenant,
          out |-> AuthorizeResult(ReqUser(r).id, ReqUser(r).organizationId, required).out]

\* one request through the chain: each middleware leaves its record
Request(r, required) ==
    /\ lastAuth' = [tok |-> r.token, out |-> AuthenticateCheck(r.token)]
    /\ IF AuthenticateCheck(r.token) = "ok" /\ ResolveTenant(r).out = "next"
       THEN /\ gate' = AuthorizeResult(ReqUser(r).id, ReqUser(r).organizationId, required)
            /\ cacheStore' = CacheSet(cacheStore,
                                 <<"permissions", ReqUser(r).id, ReqUser(r).organizationId>>,
                                 UserPermissions(ReqUser(r).id, ReqUser(r).organizationId), 300)
       ELSE UNCHANGED <<gate, cacheStore>>
    /\ UNCHANGED <<now, refreshTokens, userActive, nextFamily, pc, req>>
    /\ UNCHANGED <<userRoles, roleActive, rolePermissions, permActive, orgActive, stores>>

\* ------------------------------------------------------------------ routes
\* The routes that use the gate: the ones of the user router, mounted behind
\* router.use(authenticate, resolveTenant), and POST /auth/force-logout/:userId
Routes == {"users", "force-logout"}

\* the middleware a route declares ahead of its controller, in order (the
\* audit logger, which never stops a request, is left out)
RouteChain(route) ==
    IF route = "force-logout"
    THEN <<"authenticate", "authorize">>
    ELSE <<"authenticate", "resolveTenant", "authorize">>

\* express runs the chain in order and stops at the first middleware that
\* hands an error to next: what ran, and the answer
RunRoute(route, r, required) ==
    LET chain == RouteChain(route)
        z == AuthorizeResult(ReqUser(r).id, ReqUser(r).organizationId, required).out
    IN IF AuthenticateCheck(r.token) # "ok"
       THEN [ran |-> <<"authenticate">>, out |-> AuthenticateCheck(r.token)]
       ELSE IF chain[2] = "resolveTenant" /\ ResolveTenant(r).out # "next"
       THEN [ran |-> <<"authenticate", "resolveTenant">>, out |-> ResolveTenant(r).out]
       ELSE IF z # "next"
       THEN [ran |-> chain, out |-> z]
       ELSE [ran |-> Append(chain, "controller"), out |-> "ok"]

\* one request on a route: the middleware that run leave their records, and
\* the controller of the forced logout revokes the tokens of its target
RouteRequest(route, r, required, target) ==
    LET run == RunRoute(route, r, required)
        u == ReqUser(r).id
        o == ReqUser(r).organizationId
    IN /\ lastAuth' = [tok |-> r.token, out |-> AuthenticateCheck(r.token)]
       /\ IF \E i \in 1..Len(run.ran) : run.ran[i] = "authorize"
          THEN /\ gate' = AuthorizeResult(u, o, required)
               /\ cacheStore' = CacheDelPattern(
                                    CacheSet(cacheStore, <<"permissions", u, o>>,
                                             UserPermissions(u, o), 300),
                                    IF route = "force-logout" /\ run.out = "ok"
                                    THEN target ELSE "-")
          ELSE UNCHANGED <<gate, cacheStore>>
       /\ refreshTokens' = IF route = "force-logout" /\ run.out = "ok"
                           THEN RevokeUser(refreshTokens, target)
                           ELSE refreshTokens
       /\ UNCHANGED <<now, userActive, nextFamily, pc, req>>
       /\ UNCHANGED <<userRoles, roleActive, rolePermissions, permActive, orgActive, stores>>

\* the organization ids a caller can write into a request
Claimable == Orgs \cup {"-"}

\* the lists of required permissions a route can be declared with
RequiredLists == UNION { [1..n -> Perms] : n \in 0..MaxRequired }

\* the refresh tokens a caller can present: the ones that were stored
Presentable == { r.token : r \in refreshTokens }

\* ----------------------------------------------------------------- history
\* The rotation of request p answers with a new pair in this step: its last
\* statement runs, and neither statement has failed.
RotationWins(p) ==
    /\ pc[p] = "refresh_rotate"
    /\ ~req[p].failed
    /\ \/ req[p].pending = {"revoke"}
       \/ req[p].pending = {"create"} /\ ~Stored(req[p].newTok)

\* won: the request and the presented token of every rotation that answered "ok"
ObserveRotation(p) ==
    won' = IF RotationWins(p) THEN won \cup {<<p, req[p].tok>>} ELSE won

\* replayed: the presented token of every request that ran the replay handling
ObserveReplay(p) == replayed' = replayed \cup {req[p].tok}

\* forced: the tokens stored for u when forceLogout(u) ran
ObserveForce(u) ==
    forced' = forced \cup { r.token : r \in { x \in refreshTokens : x.userId = u } }

\* loggedOut: the access tokens logout was called with before their expiry
ObserveLogout(access) ==
    loggedOut' = IF RemainingTtl(access) > 0 THEN loggedOut \cup {access} ELSE loggedOut

Rotated == { w[2] : w \in won }

\* ------------------------------------------------------- the browser client
\* setTokens and clearTokens of the API client
SetTokens(c, access, refresh) == [c EXCEPT !.access = access, !.refresh = refresh]

ClearTokens(c) == [c EXCEPT !.access = NoToken, !.refresh = NoToken]

\* request(method, path, body): the fetch with the bearer token the client
\* holds, and the status the backend answers after authenticate
ClientRequest(p) ==
    /\ client.at[p] = "idle"
    /\ client.access # NoToken
    /\ Authenticate(client.access)
    /\ client' = [client EXCEPT !.at[p] = IF AuthenticateCheck(client.access) = "ok"
                                           THEN "done" ELSE "got401"]

\* request on a 401 of its first attempt: with a refresh token in hand it calls
\* tryRefresh, which posts that token to /auth/refresh; without one it throws
ClientOn401(p) ==
    /\ client.at[p] = "got401"
    /\ IF client.refresh # NoToken
       THEN /\ RefreshStart(p, client.refresh)
            /\ client' =
                 IF RefreshCheck(client.refresh) \in {"rotate", "replay"}
                 THEN [client EXCEPT !.at[p] = "refreshing", !.sent[p] = client.refresh,
                                     !.refreshes[p] = @ + 1]
                 ELSE [ClearTokens(client) EXCEPT !.at[p] = "loggedout",
                                                  !.sent[p] = client.refresh,
                                                  !.refreshes[p] = @ + 1]
       ELSE /\ client' = [client EXCEPT !.at[p] = "error"]
            /\ UNCHANGED <<now, refreshTokens, userActive, nextFamily, cacheStore, pc, req,
                           lastAuth, rbac>>

\* tryRefresh when /auth/refresh answers in this step of the backend: a new
\* pair is kept with setTokens and the request goes to its retry, a refusal
\* makes request clear the tokens and leave for the login page
ClientOnRefresh(p) ==
    client' = IF RotationWins(p)
              THEN [SetTokens(client, AccessOf(req[p].newTok), req[p].newTok)
                       EXCEPT !.at[p] = "retry"]
              ELSE IF pc'[p] = "idle"
              THEN [ClearTokens(client) EXCEPT !.at[p] = "loggedout"]
              ELSE client

\* request(method, path, body, true): the one retry, which never refreshes
ClientRetry(p) ==
    /\ client.at[p] = "retry"
    /\ Authenticate(client.access)
    /\ client' = [client EXCEPT !.at[p] = IF AuthenticateCheck(client.access) = "ok"
                                           THEN "done" ELSE "error",
                                !.retries[p] = @ + 1]

\* ---------------------------------------------------------- specifications
\* One multi-step request at a time among the single-statement operations.
Next ==
    \/ Tick /\ UNCHANGED <<hist, outside>>
    \/ \E pw \in Passwords : LoginStart("p1", "acme", "a@x", pw) /\ UNCHANGED <<hist, outside>>
    \/ \E ok \in BOOLEAN : LoginIssue("p1", ok) /\ UNCHANGED <<hist, outside>>
    \/ \E t \in Presentable : RefreshStart("p1", t) /\ UNCHANGED <<hist, outside>>
    \/ RefreshReplay("p1") /\ UNCHANGED <<hist, outside>>
    \/ RefreshRevokeOld("p1") /\ UNCHANGED <<hist, outside>>
    \/ RefreshCreateNew("p1") /\ UNCHANGED <<hist, outside>>
    \/ \E a \in IssuedAccess, t \in Presentable \cup {NoToken} :
          Logout(a, t) /\ UNCHANGED <<hist, outside>>
    \/ ForceLogout("u1") /\ UNCHANGED <<hist, outside>>
    \/ DeactivateUser("u1") /\ UNCHANGED <<hist, outside>>
    \/ ActivateUser("u1") /\ UNCHANGED <<hist, outside>>

Spec == Init /\ [][Next]_vars

\* Two requests in flight together on the session u1 opened by a login at time 0.
InitRace ==
    /\ now = 0
    /\ refreshTokens = {NewRow(SignRefresh("u1", UserOrg("u1"), 1, 0), "u1", 1, 0)}
    /\ userActive = [u \in Users |-> TRUE]
    /\ nextFamily = 2
    /\ cacheStore = << >>
    /\ pc = [p \in Procs |-> "idle"]
    /\ req = [p \in Procs |-> Idle]
    /\ lastAuth = [tok |-> NoToken, out |-> "none"]
    /\ won = {}
    /\ replayed = {}
    /\ forced = {}
    /\ loggedOut = {}
    /\ userRoles = {<<"u1", "r1">>, <<"u2", "r2">>}
    /\ roleActive = [r \in Roles |-> TRUE]
    /\ rolePermissions = {<<"r1", "USER_READ">>, <<"r2", "USER_READ">>, <<"r2", "USER_DELETE">>}
    /\ permActive = [a \in Perms |-> TRUE]
    /\ gate = NoGate
    /\ orgActive = [o \in Orgs |-> TRUE]
    /\ lastLogin = NoLogin
    /\ lastRefresh = NoRefresh
    /\ prevGate = [g |-> NoGate, n |-> 0]
    /\ handled = NoRequest
    /\ tx = NoTx
    /\ newUsers = {}
    /\ lastLogout = NoLogout
    /\ lastCall = NoCall
    /\ redis = {}
    /\ client = NoClient

NextRace ==
    \/ Tick /\ UNCHANGED <<hist, outside>>
    \/ \E p \in Procs, t \in Presentable : RefreshStart(p, t) /\ UNCHANGED <<hist, outside>>
    \/ \E p \in Procs :
          RefreshReplay(p) /\ ObserveReplay(p) /\ UNCHANGED <<outside, won, forced, loggedOut, seen>>
    \/ \E p \in Procs :
          RefreshRevokeOld(p) /\ ObserveRotation(p) /\ UNCHANGED <<outside, replayed, forced, loggedOut, seen>>
    \/ \E p \in Procs :
          RefreshCreateNew(p) /\ ObserveRotation(p) /\ UNCHANGED <<outside, replayed, forced, loggedOut, seen>>

SpecRace == InitRace /\ [][NextRace]_vars

\* One session and its rotations alone, with the process allowed to stop
\* between the two statements of a rotation.
NextRotate ==
    \/ Tick /\ UNCHANGED <<hist, outside>>
    \/ LoginStart("p1", "acme", "a@x", "pw1") /\ UNCHANGED <<hist, outside>>
    \/ \E ok \in BOOLEAN : LoginIssue("p1", ok) /\ UNCHANGED <<hist, outside>>
    \/ \E t \in Presentable : RefreshStart("p1", t) /\ UNCHANGED <<hist, outside>>
    \/ RefreshReplay("p1") /\ ObserveReplay("p1") /\ UNCHANGED <<outside, won, forced, loggedOut, seen>>
    \/ RefreshRevokeOld("p1") /\ ObserveRotation("p1") /\ UNCHANGED <<outside, replayed, forced, loggedOut, seen>>
    \/ RefreshCreateNew("p1") /\ ObserveRotation("p1") /\ UNCHANGED <<outside, replayed, forced, loggedOut, seen>>
    \/ RefreshAbort("p1") /\ UNCHANGED <<hist, outside>>

SpecRotate == Init /\ [][NextRotate]_vars

\* Forced logout among the logins and refreshes of one user.
NextForce ==
    \/ Tick /\ UNCHANGED <<hist, outside>>
    \/ LoginStart("p1", "acme", "a@x", "pw1") /\ UNCHANGED <<hist, outside>>
    \/ \E ok \in BOOLEAN : LoginIssue("p1", ok) /\ UNCHANGED <<hist, outside>>
    \/ \E t \in Presentable : RefreshStart("p1", t) /\ UNCHANGED <<hist, outside>>
    \/ RefreshReplay("p1") /\ UNCHANGED <<hist, outside>>
    \/ RefreshRevokeOld("p1") /\ UNCHANGED <<hist, outside>>
    \/ RefreshCreateNew("p1") /\ UNCHANGED <<hist, outside>>
    \/ ForceLogout("u1") /\ ObserveForce("u1") /\ UNCHANGED <<outside, won, replayed, loggedOut, seen>>

SpecForce == Init /\ [][NextForce]_vars

\* Access tokens: login, logout, forced logout and the authenticate gate.
NextAccess ==
    \/ Tick /\ UNCHANGED <<hist, outside>>
    \/ \E u \in Users :
          LoginStart("p1", OrgSlug(UserOrg(u)), UserEmail(u), UserPassword(u)) /\ UNCHANGED <<hist, outside>>
    \/ \E ok \in BOOLEAN : LoginIssue("p1", ok) /\ UNCHANGED <<hist, outside>>
    \/ \E a \in IssuedAccess : Authenticate(a) /\ UNCHANGED <<hist, outside>>
    \/ \E a \in IssuedAccess, t \in Presentable \cup {NoToken} :
          Logout(a, t) /\ ObserveLogout(a) /\ UNCHANGED <<outside, won, replayed, forced, seen>>
    \/ \E u \in Users :
          ForceLogout(u) /\ ObserveForce(u) /\ UNCHANGED <<outside, won, replayed, loggedOut, seen>>

SpecAccess == Init /\ [][NextAccess]_vars

\* The authorization gate over every state of the role and permission tables.
InitGate ==
    /\ now = 0
    /\ refreshTokens = {}
    /\ userActive = [u \in Users |-> TRUE]
    /\ nextFamily = 1
    /\ cacheStore = << >>
    /\ pc = [p \in Procs |-> "idle"]
    /\ req = [p \in Procs |-> Idle]
    /\ lastAuth = [tok |-> NoToken, out |-> "none"]
    /\ won = {}
    /\ replayed = {}
    /\ forced = {}
    /\ loggedOut = {}
    /\ userRoles \in SUBSET (Users \X SeedRoles)
    /\ roleActive \in { f \in [Roles -> BOOLEAN] : f["r3"] }
    /\ rolePermissions \in SUBSET (SeedRoles \X Perms)
    /\ permActive \in [Perms -> BOOLEAN]
    /\ gate = NoGate
    /\ orgActive = [o \in Orgs |-> TRUE]
    /\ lastLogin = NoLogin
    /\ lastRefresh = NoRefresh
    /\ prevGate = [g |-> NoGate, n |-> 0]
    /\ handled = NoRequest
    /\ tx = NoTx
    /\ newUsers = {}
    /\ lastLogout = NoLogout
    /\ lastCall = NoCall
    /\ redis = {}
    /\ client = NoClient

NextGate ==
    \E u \in Users, required \in RequiredLists : Authorize(u, required) /\ UNCHANGED <<hist, outside>>

SpecGate == InitGate /\ [][NextGate]_vars

\* The permission resolver among the changes of roles and permissions.
ObserveGate == prevGate' = [g |-> gate, n |-> 1 - prevGate.n]

NextCache ==
    \/ \E u \in Users, a \in Perms :
          Authorize(u, <<a>>) /\ ObserveGate
          /\ UNCHANGED <<outside, won, replayed, forced, loggedOut, lastLogin, lastRefresh, handled,
                       lastLogout, lastCall>>
    \/ \E u \in Users, o \in Orgs, roleIds \in SUBSET SeedRoles :
          AssignRoles(u, o, roleIds) /\ UNCHANGED <<hist, outside>>
    \/ \E r \in SeedRoles, o \in Orgs, active \in BOOLEAN :
          UpdateRole(r, o, active) /\ UNCHANGED <<hist, outside>>
    \/ \E r \in SeedRoles, o \in Orgs : DeleteRole(r, o) /\ UNCHANGED <<hist, outside>>
    \/ \E r \in SeedRoles, o \in Orgs, permIds \in SUBSET Perms :
          AssignPermissions(r, o, permIds) /\ UNCHANGED <<hist, outside>>
    \/ \E a \in Perms, active \in BOOLEAN : UpdatePermission(a, active) /\ UNCHANGED <<hist, outside>>

SpecCache == Init /\ [][NextCache]_vars

\* Requests through the middleware chain while sessions open and
\* organizations are switched off and on.
ObserveRequest(r, required) ==
    handled' = [tok |-> r.token, claimed |-> r.claimed, required |-> required,
                user |-> Chain(r, required).user, tenant |-> Chain(r, required).tenant,
                out |-> Chain(r, required).out, n |-> 1 - handled.n]

NextTenant ==
    \/ Tick /\ UNCHANGED <<hist, outside>>
    \/ \E u \in Users :
          LoginStart("p1", OrgSlug(UserOrg(u)), UserEmail(u), UserPassword(u)) /\ UNCHANGED <<hist, outside>>
    \/ \E ok \in BOOLEAN : LoginIssue("p1", ok) /\ UNCHANGED <<hist, outside>>
    \/ \E o \in Orgs, active \in BOOLEAN : UpdateOrganization(o, active) /\ UNCHANGED <<hist, outside>>
    \/ \E a \in IssuedAccess, c \in Claimable, perm \in Perms :
          /\ Request([token |-> a, claimed |-> c], <<perm>>)
          /\ ObserveRequest([token |-> a, claimed |-> c], <<perm>>)
          /\ UNCHANGED <<outside, won, replayed, forced, loggedOut, lastLogin, lastRefresh, prevGate,
                       lastLogout, lastCall>>

SpecTenant == Init /\ [][NextTenant]_vars

\* Logins with every input a caller can type, while users and organizations
\* are switched off and on.
ObserveLoginStart(slug, email, password) ==
    lastLogin' = [slug |-> slug, email |-> email, password |-> password,
                  out |-> IF LoginCheck(slug, email, password) = "ok"
                          THEN "issuing" ELSE LoginCheck(slug, email, password),
                  n |-> 1 - lastLogin.n]

ObserveLoginIssue(recordOk) ==
    lastLogin' = [lastLogin EXCEPT !.out = LoginAnswer(recordOk), !.n = 1 - lastLogin.n]

NextLogin ==
    \/ \E slug \in Slugs, email \in Emails, password \in Passwords :
          /\ LoginStart("p1", slug, email, password)
          /\ ObserveLoginStart(slug, email, password)
          /\ UNCHANGED <<outside, won, replayed, forced, loggedOut, lastRefresh, prevGate, handled,
                       lastLogout, lastCall>>
    \/ \E ok \in BOOLEAN :
          /\ LoginIssue("p1", ok)
          /\ ObserveLoginIssue(ok)
          /\ UNCHANGED <<outside, won, replayed, forced, loggedOut, lastRefresh, prevGate, handled,
                       lastLogout, lastCall>>
    \/ \E o \in Orgs, active \in BOOLEAN : UpdateOrganization(o, active) /\ UNCHANGED <<hist, outside>>
    \/ \E u \in Users : DeactivateUser(u) /\ UNCHANGED <<hist, outside>>
    \/ \E u \in Users : ActivateUser(u) /\ UNCHANGED <<hist, outside>>

SpecLogin == Init /\ [][NextLogin]_vars

\* A session opened long ago runs into its expiry: its token is rotatable at
\* time 0, carries an expired exp claim from time 1 on, and its stored expiry
\* has passed from time 2 on.
InitExpiry ==
    /\ now = 0
    /\ refreshTokens = {NewRow(SignRefresh("u1", UserOrg("u1"), 1, 1 - RefreshExpiry),
                               "u1", 1, 1 - RefreshExpiry)}
    /\ userActive = [u \in Users |-> TRUE]
    /\ nextFamily = 2
    /\ cacheStore = << >>
    /\ pc = [p \in Procs |-> "idle"]
    /\ req = [p \in Procs |-> Idle]
    /\ lastAuth = [tok |-> NoToken, out |-> "none"]
    /\ won = {}
    /\ replayed = {}
    /\ forced = {}
    /\ loggedOut = {}
    /\ userRoles = {<<"u1", "r1">>, <<"u2", "r2">>}
    /\ roleActive = [r \in Roles |-> TRUE]
    /\ rolePermissions = {<<"r1", "USER_READ">>, <<"r2", "USER_READ">>, <<"r2", "USER_DELETE">>}
    /\ permActive = [a \in Perms |-> TRUE]
    /\ gate = NoGate
    /\ orgActive = [o \in Orgs |-> TRUE]
    /\ lastLogin = NoLogin
    /\ lastRefresh = NoRefresh
    /\ prevGate = [g |-> NoGate, n |-> 0]
    /\ handled = NoRequest
    /\ tx = NoTx
    /\ newUsers = {}
    /\ lastLogout = NoLogout
    /\ lastCall = NoCall
    /\ redis = {}
    /\ client = NoClient

ObserveRefresh(tok) ==
    lastRefresh' = [tok |-> tok, out |-> RefreshCheck(tok), at |-> now, n |-> 1 - lastRefresh.n]

NextExpiry ==
    \/ Tick /\ UNCHANGED <<hist, outside>>
    \/ \E t \in Presentable :
          /\ RefreshStart("p1", t)
          /\ ObserveRefresh(t)
          /\ UNCHANGED <<outside, won, replayed, forced, loggedOut, lastLogin, prevGate, handled,
                       lastLogout, lastCall>>
    \/ RefreshReplay("p1") /\ UNCHANGED <<hist, outside>>
    \/ RefreshRevokeOld("p1") /\ UNCHANGED <<hist, outside>>
    \/ RefreshCreateNew("p1") /\ UNCHANGED <<hist, outside>>
    \/ \E u \in Users : DeactivateUser(u) /\ UNCHANGED <<hist, outside>>
    \/ \E u \in Users : ActivateUser(u) /\ UNCHANGED <<hist, outside>>

SpecExpiry == InitExpiry /\ [][NextExpiry]_vars

\* Refresh calls with every token a caller can put into the body: stored ones,
\* validly signed ones that have no record, and ones signed with another key.
Forgeable ==
    { [SignRefresh("u1", UserOrg("u1"), 1, t) EXCEPT !.sig = k] :
          t \in 0..1, k \in {"refresh", "forged"} }

NextPresent ==
    \/ Tick /\ UNCHANGED <<hist, outside>>
    \/ LoginStart("p1", "acme", "a@x", "pw1") /\ UNCHANGED <<hist, outside>>
    \/ \E ok \in BOOLEAN : LoginIssue("p1", ok) /\ UNCHANGED <<hist, outside>>
    \/ \E t \in Presentable \cup Forgeable :
          /\ RefreshStart("p1", t)
          /\ ObserveRefresh(t)
          /\ UNCHANGED <<outside, won, replayed, forced, loggedOut, lastLogin, prevGate, handled,
                         lastLogout, lastCall>>
    \/ RefreshReplay("p1") /\ UNCHANGED <<hist, outside>>
    \/ RefreshRevokeOld("p1") /\ UNCHANGED <<hist, outside>>
    \/ RefreshCreateNew("p1") /\ UNCHANGED <<hist, outside>>
    \/ DeactivateUser("u1") /\ UNCHANGED <<hist, outside>>
    \/ ActivateUser("u1") /\ UNCHANGED <<hist, outside>>

SpecPresent == Init /\ [][NextPresent]_vars

\* Logouts on two open sessions, one of each user, while the session of u1
\* rotates its token.
InitLogout ==
    /\ now = 0
    /\ refreshTokens = { NewRow(SignRefresh("u1", UserOrg("u1"), 1, 0), "u1", 1, 0),
                         NewRow(SignRefresh("u2", UserOrg("u2"), 2, 0), "u2", 2, 0) }
    /\ userActive = [u \in Users |-> TRUE]
    /\ nextFamily = 3
    /\ cacheStore = << >>
    /\ pc = [p \in Procs |-> "idle"]
    /\ req = [p \in Procs |-> Idle]
    /\ lastAuth = [tok |-> NoToken, out |-> "none"]
    /\ won = {}
    /\ replayed = {}
    /\ forced = {}
    /\ loggedOut = {}
    /\ userRoles = {<<"u1", "r1">>, <<"u2", "r2">>}
    /\ roleActive = [r \in Roles |-> TRUE]
    /\ rolePermissions = {<<"r1", "USER_READ">>, <<"r2", "USER_READ">>, <<"r2", "USER_DELETE">>}
    /\ permActive = [a \in Perms |-> TRUE]
    /\ gate = NoGate
    /\ orgActive = [o \in Orgs |-> TRUE]
    /\ lastLogin = NoLogin
    /\ lastRefresh = NoRefresh
    /\ prevGate = [g |-> NoGate, n |-> 0]
    /\ handled = NoRequest
    /\ tx = NoTx
    /\ newUsers = {}
    /\ lastLogout = NoLogout
    /\ lastCall = NoCall
    /\ redis = {}
    /\ client = NoClient

ObserveLogoutCall(access, refresh) ==
    lastLogout' = [access |-> access, refresh |-> refresh, ttl |-> RemainingTtl(access),
                   n |-> 1 - lastLogout.n]

NextLogout ==
    \/ Tick /\ UNCHANGED <<hist, outside>>
    \/ \E t \in { x \in Presentable : x.sub = "u1" } :
          RefreshStart("p1", t) /\ UNCHANGED <<hist, outside>>
    \/ RefreshReplay("p1") /\ UNCHANGED <<hist, outside>>
    \/ RefreshRevokeOld("p1") /\ UNCHANGED <<hist, outside>>
    \/ RefreshCreateNew("p1") /\ UNCHANGED <<hist, outside>>
    \/ \E a \in IssuedAccess, t \in Presentable \cup {NoToken} :
          /\ Logout(a, t)
          /\ ObserveLogoutCall(a, t)
          /\ UNCHANGED <<outside, won, replayed, forced, loggedOut, lastLogin, lastRefresh, prevGate,
                         handled, lastCall>>

SpecLogout == InitLogout /\ [][NextLogout]_vars

\* Permission checks running among the statements of a reassignment.
ObserveRead(u) ==
    lastCall' = [op |-> "authorize", subject |-> u, tenant |-> tx.key,
                 ran |-> <<tx.op, tx.step>>, out |-> "done", n |-> 1 - lastCall.n]

NextAtomic ==
    \/ \E u \in Users, o \in Orgs, roleIds \in SUBSET SeedRoles :
          AssignRolesBegin(u, o, roleIds) /\ UNCHANGED <<hist, outside>>
    \/ \E r \in SeedRoles, o \in Orgs, permIds \in SUBSET Perms :
          AssignPermissionsBegin(r, o, permIds) /\ UNCHANGED <<hist, outside>>
    \/ TxDeleteMany /\ UNCHANGED <<hist, outside>>
    \/ TxCreateMany /\ UNCHANGED <<hist, outside>>
    \/ TxCommit /\ UNCHANGED <<hist, outside>>
    \/ \E u \in Users :
          /\ Authorize(u, <<"USER_READ">>)
          /\ ObserveRead(u)
          /\ UNCHANGED <<outside, won, replayed, forced, loggedOut, lastLogin, lastRefresh, prevGate,
                         handled, lastLogout>>

SpecAtomic == Init /\ [][NextAtomic]_vars

\* The role management calls of every tenant on every role.
ObserveCall(op, subject, tenant, out) ==
    lastCall' = [op |-> op, subject |-> subject, tenant |-> tenant, ran |-> << >>,
                 out |-> out, n |-> 1 - lastCall.n]

NextRoles ==
    \/ \E r \in Roles, o \in Orgs, active \in BOOLEAN :
          /\ UpdateRole(r, o, active)
          /\ ObserveCall("updateRole", r, o, UpdateRoleAnswer(r, o))
          /\ UNCHANGED <<outside, won, replayed, forced, loggedOut, lastLogin, lastRefresh, prevGate,
                         handled, lastLogout>>
    \/ \E r \in Roles, o \in Orgs :
          /\ DeleteRole(r, o)
          /\ ObserveCall("deleteRole", r, o, UpdateRoleAnswer(r, o))
          /\ UNCHANGED <<outside, won, replayed, forced, loggedOut, lastLogin, lastRefresh, prevGate,
                         handled, lastLogout>>
    \/ \E r \in Roles, o \in Orgs, permIds \in SUBSET Perms :
          /\ AssignPermissions(r, o, permIds)
          /\ ObserveCall("assignPermissions", r, o, AssignPermissionsAnswer(r, o))
          /\ UNCHANGED <<outside, won, replayed, forced, loggedOut, lastLogin, lastRefresh, prevGate,
                         handled, lastLogout>>

SpecRoles == Init /\ [][NextRoles]_vars

\* Registrations of two callers at a time, in both organizations.
ObserveRegisterStart(slug, email) ==
    lastCall' = [op |-> "register", subject |-> email, tenant |-> slug, ran |-> <<"check">>,
                 out |-> IF RegisterCheck(slug, email) = "ok"
                         THEN "creating" ELSE RegisterCheck(slug, email),
                 n |-> 1 - lastCall.n]

ObserveRegisterCreate(p) ==
    lastCall' = [op |-> "register", subject |-> req[p].email, tenant |-> OrgSlug(req[p].org),
                 ran |-> <<"check", "create">>, out |-> RegisterAnswer(p),
                 n |-> 1 - lastCall.n]

NextRegister ==
    \/ \E p \in Procs, slug \in Slugs, email \in {"a@x", "c@x"} :
          /\ RegisterStart(p, slug, email)
          /\ ObserveRegisterStart(slug, email)
          /\ UNCHANGED <<outside, won, replayed, forced, loggedOut, lastLogin, lastRefresh, prevGate,
                         handled, lastLogout>>
    \/ \E p \in Procs :
          /\ RegisterCreate(p)
          /\ ObserveRegisterCreate(p)
          /\ UNCHANGED <<outside, won, replayed, forced, loggedOut, lastLogin, lastRefresh, prevGate,
                         handled, lastLogout>>

SpecRegister == Init /\ [][NextRegister]_vars

\* Requests on the routes behind the gate while organizations are switched
\* off and on.
ObserveRoute(route, r, required) ==
    lastCall' = [op |-> route, subject |-> r.token.sub, tenant |-> r.token.org,
                 ran |-> RunRoute(route, r, required).ran,
                 out |-> RunRoute(route, r, required).out, n |-> 1 - lastCall.n]

NextRoutes ==
    \/ Tick /\ UNCHANGED <<hist, outside>>
    \/ \E u \in Users :
          LoginStart("p1", OrgSlug(UserOrg(u)), UserEmail(u), UserPassword(u)) /\ UNCHANGED <<hist, outside>>
    \/ \E ok \in BOOLEAN : LoginIssue("p1", ok) /\ UNCHANGED <<hist, outside>>
    \/ \E o \in Orgs, active \in BOOLEAN : UpdateOrganization(o, active) /\ UNCHANGED <<hist, outside>>
    \/ \E route \in Routes, a \in IssuedAccess, perm \in Perms, target \in Users :
          /\ RouteRequest(route, [token |-> a, claimed |-> "-"], <<perm>>, target)
          /\ ObserveRoute(route, [token |-> a, claimed |-> "-"], <<perm>>)
          /\ UNCHANGED <<outside, won, replayed, forced, loggedOut, lastLogin, lastRefresh, prevGate,
                         handled, lastLogout>>

SpecRoutes == Init /\ [][NextRoutes]_vars

\* ------------------------------------------------------------------ claims
FamilyRows(rows, fam) == { r \in rows : r.family = fam }

AllIdle == \A p \in Procs : pc[p] = "idle"

\* the request p finishes the replay handling in this step
ReplayAnswers(p) == pc[p] = "refresh_replay" /\ pc'[p] = "idle"

\* the rotation of request p ends in this step with a failed statement
RotationFails(p) ==
    /\ pc[p] = "refresh_rotate"
    /\ pc'[p] = "idle"
    /\ \/ req[p].failed
       \/ req[p].pending = {"create"} /\ Stored(req[p].newTok)

\* C1 (as stated): once refresh(T0) has returned a new pair, every later
\* refresh(T0) runs the replay handling that revokes the whole family, unless
\* the family is already dead.
C1_ReplayAlwaysKillsFamily ==
    \A t \in Rotated :
        \/ RefreshCheck(t) = "replay"
        \/ ActiveOfFamily(refreshTokens, t.fam) = {}

\* C1 (amended): once refresh(T0) has returned a new pair, every later
\* refresh(T0) fails: as an invalid token when T0's own expiry claim has passed
\* (no row changes), else as a replay; the replay handling leaves every stored
\* row of T0's family revoked, and a revoked row (T1 included) is never rotated
\* again.
C1_ReplayKillsFamily ==
    /\ [](\A t \in Rotated : RefreshCheck(t) \in {"invalid", "replay"})
    /\ [](\A r \in refreshTokens :
            r.isRevoked => RefreshCheck(r.token) \in {"invalid", "replay"})
    /\ [][\A p \in Procs : ReplayAnswers(p) =>
            \A r \in FamilyRows(refreshTokens', req[p].tok.fam) : r.isRevoked]_vars

\* C1 witness: T0 was rotated, then replayed, and T1 died with the family
C1_Witness ==
    \E t \in Rotated \cap replayed :
        /\ ActiveOfFamily(refreshTokens, t.fam) = {}
        /\ \E r \in FamilyRows(refreshTokens, t.fam) : r.token \notin Rotated

\* C2: when no call is in flight, a family has at most one non-revoked row
C2_AtMostOneActive ==
    AllIdle => \A r \in refreshTokens :
                  Cardinality(ActiveOfFamily(refreshTokens, r.family)) <= 1

\* C3: of the refresh calls presenting one token, at most one wins the rotation
C3_ExactlyOneWins ==
    \A t \in Rotated : Cardinality({ p \in Procs : <<p, t>> \in won }) <= 1

\* C4: a rotation that fails leaves the presented record non-revoked and its
\* family with exactly one non-revoked row
C4_RotationAllOrNothing ==
    [][\A p \in Procs : RotationFails(p) =>
          /\ \E r \in refreshTokens' : r.token = req[p].tok /\ ~r.isRevoked
          /\ Cardinality(ActiveOfFamily(refreshTokens', req[p].tok.fam)) = 1]_vars

\* C5: a revoked row stays revoked and no row is ever deleted
C5_RevocationTerminal ==
    [][\A r \in refreshTokens :
          \E n \in refreshTokens' :
              /\ n.token = r.token
              /\ (r.isRevoked => n.isRevoked)]_vars

\* C5 witness: a revoked row is presented again while its owner is inactive
C5_Witness ==
    /\ pc["p1"] = "refresh_replay"
    /\ RowOf(req["p1"].tok).isRevoked
    /\ ~userActive["u1"]

\* C6: after forceLogout(u), no refresh presenting a token that was stored for
\* u at that time reaches the rotation
C6_ForcedTokensFail ==
    \A t \in forced :
        RefreshCheck(t) \in {"invalid", "notfound", "replay", "expired", "deactivated"}

\* C6 witness: a refresh of a force-logged-out token still within its expiry
\* claim is refused
C6_Witness ==
    \E t \in forced :
        /\ JwtVerify(t, "refresh", RefreshExpiry, now)
        /\ pc["p1"] = "refresh_replay"
        /\ req["p1"].tok = t

\* C7: after forceLogout(u), authenticate rejects the access tokens of u
C7_ForcedAccessRejected ==
    \A t \in forced : AuthenticateCheck(AccessOf(t)) # "ok"

\* C8: between logout and its expiry, an access token is rejected as revoked
C8_LoggedOutRejected ==
    \A a \in loggedOut :
        now < a.iat + AccessExpiry =>
            AuthenticateCheck(a) = "Unauthorized:Token has been revoked"

Range(seq) == { seq[i] : i \in 1..Len(seq) }

\* C9: a user whose resolved permission set is empty is refused by every
\* authorize check, whatever the required list, the empty list included
C9_DenyByDefault ==
    (gate.out # "none" /\ gate.userPermissions = {}) => gate.out = "Forbidden"

\* C9 witness: a user without permissions is refused on a route that requires none
C9_Witness ==
    /\ gate.out = "Forbidden"
    /\ gate.userPermissions = {}
    /\ gate.required = << >>

\* C10: authorize lets the request through exactly when the user's permission
\* set and the required set intersect, and signals Forbidden otherwise
C10_AnyOneSuffices ==
    gate.out # "none" =>
        /\ gate.userPermissions = ResolvePermissions(gate.user)
        /\ gate.out = IF gate.userPermissions \cap Range(gate.required) # {}
                      THEN "next" ELSE "Forbidden"

\* C10 witness: one of two required permissions is held, and the request passes
C10_Witness ==
    /\ gate.out = "next"
    /\ Len(gate.required) = 2
    /\ Cardinality(gate.userPermissions \cap Range(gate.required)) = 1

\* the roles assigned to u that are active
ActiveRolesOf(u) == { r \in Roles : <<u, r>> \in userRoles /\ roleActive[r] }

\* the actions the relational state grants u
Granted(u) ==
    { a \in Perms : permActive[a] /\ \E r \in ActiveRolesOf(u) : <<r, a>> \in rolePermissions }

\* C11: on a cache miss the resolver returns exactly the actions of the active
\* permissions attached to active roles assigned to the user; nothing of an
\* inactive role or of an inactive permission is in the result
C11_ResolveExact ==
    gate.out # "none" =>
        /\ gate.userPermissions = Granted(gate.user)
        /\ \A a \in gate.userPermissions :
              /\ permActive[a]
              /\ \E r \in Roles : roleActive[r] /\ <<gate.user, r>> \in userRoles
                                  /\ <<r, a>> \in rolePermissions

\* C11 witness: the user holds an active role and an inactive role, the
\* inactive one alone carries an active permission, and that permission is
\* left out of a non-empty result
C11_Witness ==
    /\ gate.out # "none"
    /\ gate.userPermissions # {}
    /\ \E r \in Roles, a \in Perms :
          /\ <<gate.user, r>> \in userRoles /\ ~roleActive[r]
          /\ <<r, a>> \in rolePermissions /\ permActive[a]
          /\ a \notin gate.userPermissions

\* C13: with a cache whose get always yields absent and whose set and delete
\* do nothing, authorize decides from the relational state alone and always
\* ends in next or Forbidden, never in an error of the cache
C13_CacheOutageFallsThrough ==
    gate.out # "none" =>
        /\ \A u \in Users : ~CacheGet(cacheStore, <<"permissions", u, UserOrg(u)>>).hit
        /\ cacheStore = << >>
        /\ gate.out \in {"next", "Forbidden"}
        /\ gate.out = "next" <=> \E i \in 1..Len(gate.required) : gate.required[i] \in Granted(gate.user)

\* C13 witness: a second check of the same user still reads the tables: the
\* request passes on a granted permission with nothing cached
C13_Witness ==
    /\ gate.out = "next"
    /\ cacheStore = << >>
    /\ Granted(gate.user) # {}
    /\ Len(gate.required) = 1

\* C12: after a completed change of a user's roles, a role's permissions, a
\* role's active flag or a permission's active flag, the next resolve for the
\* user returns the set the tables grant at that moment, whatever an earlier
\* resolve returned
C12_ResolveAfterMutation ==
    [][prevGate' # prevGate => gate'.userPermissions = Granted(gate'.user)]_vars

\* C12 witness: the same user was resolved twice with a change in between, and
\* the second result is the new set, not the earlier one
C12_Witness ==
    /\ gate.out # "none"
    /\ prevGate.g.user = gate.user
    /\ prevGate.g.userPermissions # gate.userPermissions
    /\ gate.userPermissions = Granted(gate.user)

\* C14: the identity, the tenant and the answer a request gets depend on its
\* verified token and the stored state alone: the same token with any other
\* organization named in a header, URL parameter or body field gets the same
\* three, and identity and tenant are the token's subject and organization
C14_TokenAloneDecides ==
    [][handled' # handled =>
          /\ \A c \in Claimable :
                Chain([token |-> handled'.tok, claimed |-> c], handled'.required)
                    = [user |-> handled'.user, tenant |-> handled'.tenant, out |-> handled'.out]
          /\ handled'.user \in {Null, handled'.tok.sub}
          /\ handled'.tenant \in {Null, handled'.tok.org}]_vars

\* C14 witness: a request that names another organization than the token's is
\* let through under the token's identity and tenant
C14_Witness ==
    /\ handled.out = "next"
    /\ handled.claimed \in Orgs \ {handled.tok.org}
    /\ handled.user = handled.tok.sub
    /\ handled.tenant = handled.tok.org

\* the triple is the slug, email and password of an active user of an active
\* organization
Matches(slug, email, password) ==
    \E u \in Users :
        /\ OrgSlug(UserOrg(u)) = slug /\ UserEmail(u) = email /\ UserPassword(u) = password
        /\ userActive[u] /\ orgActive[UserOrg(u)]

\* the login call checks its input in this step
LoginChecked == lastLogin' # lastLogin /\ pc["p1"] = "idle"

C16_LoginFailures ==
    [][LoginChecked =>
          LET l == lastLogin'
              o == OrgBySlug(l.slug)
              u == UserByEmail(l.email, o)
              noOrg == o = Null \/ ~orgActive[o]
          IN /\ l.out = "NotFound:Organization" <=> noOrg
             /\ (~noOrg /\ (u = Null \/ ~userActive[u] \/ l.password # UserPassword(u)))
                => l.out = "Unauthorized:Invalid credentials"
             /\ l.out # "issuing" => refreshTokens' = refreshTokens /\ pc' = pc]_vars

\* C16 witness: an inactive user typed the right password and got the generic
\* error
C16_Witness ==
    /\ lastLogin.out = "Unauthorized:Invalid credentials"
    /\ OrgBySlug(lastLogin.slug) # Null
    /\ LET u == UserByEmail(lastLogin.email, OrgBySlug(lastLogin.slug))
       IN u # Null /\ ~userActive[u] /\ lastLogin.password = UserPassword(u)

\* C17: a login whose credentials are valid returns the pair even when the
\* update of the last-login timestamp fails
C17_LastLoginNotCritical ==
    [][(pc["p1"] = "login_issue" /\ pc'["p1"] = "idle") => lastLogin'.out = "ok"]_vars

\* the token issuer runs for request p in this step: at the end of a login, or
\* as the second statement of a rotation
IssuerRuns(p) ==
    \/ pc[p] = "login_issue" /\ pc'[p] = "idle"
    \/ /\ pc[p] = "refresh_rotate"
       /\ "create" \in req[p].pending
       /\ "create" \notin req'[p].pending

\* C18: every call of the token issuer writes exactly one RefreshToken row,
\* not revoked and owned by the given user; at a login the row's family is one
\* that no stored row carries
C18_OneRowPerIssue ==
    [][\A p \in Procs : IssuerRuns(p) =>
          \E r \in refreshTokens' :
              /\ refreshTokens' \ refreshTokens = {r}
              /\ ~r.isRevoked
              /\ r.userId = req[p].user
              /\ pc[p] = "login_issue" => \A x \in refreshTokens : x.family # r.family]_vars

\* C19: a refresh that succeeds leaves the presented record revoked and a new
\* row of the same family and the same user, signed for the organization of
\* the presented token; the rows of one family share one user and one
\* organization
C19_FamilyKeepsOwner ==
    /\ [](\A r1, r2 \in refreshTokens :
            r1.family = r2.family =>
                /\ r1.userId = r2.userId
                /\ AccessOf(r1.token).org = AccessOf(r2.token).org)
    /\ [][\A p \in Procs : (RotationWins(p) /\ pc'[p] = "idle") =>
            /\ \E o \in refreshTokens' : o.token = req[p].tok /\ o.isRevoked
            /\ \E n \in refreshTokens' :
                  /\ n.token = req[p].newTok
                  /\ n.family = RowOf(req[p].tok).family
                  /\ n.userId = RowOf(req[p].tok).userId
                  /\ AccessOf(n.token).org = req[p].tok.org]_vars

\* C19 witness: a rotation was answered with a new pair, and the family holds
\* the revoked presented record next to a younger row
C19_Witness ==
    \E t \in Rotated :
        /\ RowOf(t).isRevoked
        /\ \E n \in FamilyRows(refreshTokens, RowOf(t).family) :
              n.token # t /\ n.token.iat > t.iat /\ n.userId = RowOf(t).userId

\* C20: a refresh presenting a non-revoked token whose stored expiry has
\* passed is refused as Unauthorized and changes no row: nothing is revoked,
\* nothing is created, no rotation starts
C20_ExpiredChangesNothing ==
    [][lastRefresh' # lastRefresh =>
          LET t == lastRefresh'.tok
          IN (Stored(t) /\ ~RowOf(t).isRevoked /\ now > RowOf(t).expiresAt) =>
                /\ lastRefresh'.out \in {"invalid", "expired"}
                /\ refreshTokens' = refreshTokens
                /\ pc' = pc]_vars

\* C20 witness: the token of the old session was presented after its stored
\* expiry, still not revoked, and refused
C20_Witness ==
    /\ lastRefresh.out \in {"invalid", "expired"}
    /\ Stored(lastRefresh.tok)
    /\ ~RowOf(lastRefresh.tok).isRevoked
    /\ lastRefresh.at > RowOf(lastRefresh.tok).expiresAt

\* C21: a refresh whose token fails the verification of signature and expiry
\* claim is refused as invalid whatever the table holds, and a refresh whose
\* verified token has no stored record is refused as not found; in both cases
\* no row is added or changed and no rotation starts
C21_InvalidOrUnknownRefused ==
    [][lastRefresh' # lastRefresh =>
          LET t == lastRefresh'.tok
              verified == JwtVerify(t, "refresh", RefreshExpiry, now)
          IN /\ ~verified =>
                   lastRefresh'.out = "invalid" /\ refreshTokens' = refreshTokens /\ pc' = pc
             /\ (verified /\ ~Stored(t)) =>
                   lastRefresh'.out = "notfound" /\ refreshTokens' = refreshTokens /\ pc' = pc]_vars

\* C21 witness: a validly signed token without a record was presented while
\* the table held other rows, and was refused as not found
C21_Witness ==
    /\ lastRefresh.out = "notfound"
    /\ lastRefresh.tok.sig = "refresh"
    /\ ~Stored(lastRefresh.tok)
    /\ refreshTokens # {}

\* C22: a refresh whose verified token is stored, not revoked and not expired,
\* and whose owner is inactive, is refused; no row is added, the presented
\* row keeps its revoked flag and no rotation starts
C22_InactiveOwnerRefused ==
    [][lastRefresh' # lastRefresh =>
          LET t == lastRefresh'.tok
          IN ( /\ JwtVerify(t, "refresh", RefreshExpiry, now)
               /\ Stored(t)
               /\ ~RowOf(t).isRevoked
               /\ now <= RowOf(t).expiresAt
               /\ ~userActive[RowOf(t).userId] )
             => /\ lastRefresh'.out = "deactivated"
                /\ refreshTokens' = refreshTokens
                /\ pc' = pc]_vars

\* C22 witness: the live token of a deactivated user was presented and refused
C22_Witness ==
    /\ lastRefresh.out = "deactivated"
    /\ Stored(lastRefresh.tok)
    /\ ~RowOf(lastRefresh.tok).isRevoked
    /\ ~userActive[RowOf(lastRefresh.tok).userId]
    /\ pc["p1"] = "idle"

\* C23: a refresh that finds the record of its verified token revoked goes to
\* the replay handling, whatever the owner's active flag; the request leaves
\* the replay handling only with every row of the family revoked, and it adds
\* no row
C23_ReplayRevokesFirst ==
    /\ [][lastRefresh' # lastRefresh =>
            LET t == lastRefresh'.tok
            IN ( /\ JwtVerify(t, "refresh", RefreshExpiry, now)
                 /\ Stored(t)
                 /\ RowOf(t).isRevoked )
               => lastRefresh'.out = "replay" /\ pc'["p1"] = "refresh_replay"]_vars
    /\ [][\A p \in Procs : (pc[p] = "refresh_replay" /\ pc'[p] # "refresh_replay") =>
            /\ \A r \in FamilyRows(refreshTokens', req[p].tok.fam) : r.isRevoked
            /\ { r.token : r \in refreshTokens' } = { r.token : r \in refreshTokens }]_vars

\* C23 witness: the replay of a rotated token is being handled while the owner
\* is inactive and a younger row of the family is still not revoked
C23_Witness ==
    /\ pc["p1"] = "refresh_replay"
    /\ lastRefresh.out = "replay"
    /\ req["p1"].tok = lastRefresh.tok
    /\ ~userActive[RowOf(lastRefresh.tok).userId]
    /\ ActiveOfFamily(refreshTokens, RowOf(lastRefresh.tok).family) # {}

\* C24: once a detected replay of a token of family F and every call in flight
\* with it have settled, no row of F is left non-revoked
C24_ReplayKillsLineage ==
    AllIdle => \A t \in replayed : ActiveOfFamily(refreshTokens, RowOf(t).family) = {}

\* C25: a logout with a refresh token marks revoked the row that has exactly
\* that token value and is owned by the caller, and nothing else: every other
\* row, of the same family or not, of the same user or not, stays as it was,
\* and a token owned by another user is left unchanged; no row is added or
\* removed
C25_LogoutRevokesOnlyOwn ==
    [][lastLogout' # lastLogout =>
          LET t == lastLogout'.refresh
              u == lastLogout'.access.sub
          IN /\ \A r \in refreshTokens :
                   IF r.token = t /\ r.userId = u
                   THEN [r EXCEPT !.isRevoked = TRUE] \in refreshTokens'
                   ELSE r \in refreshTokens'
             /\ Cardinality(refreshTokens') = Cardinality(refreshTokens)]_vars

\* C25 witness: u2 logged out presenting the live token of u1, which is still
\* not revoked
C25_Witness ==
    /\ lastLogout.access.sub = "u2"
    /\ Stored(lastLogout.refresh)
    /\ RowOf(lastLogout.refresh).userId = "u1"
    /\ ~RowOf(lastLogout.refresh).isRevoked

\* C26: a logout with an access token that has time left leaves a blacklist
\* entry for the token whose time to live is the expiry claim minus the
\* current time; with no time left it leaves the cache as it was
C26_BlacklistTtl ==
    [][lastLogout' # lastLogout =>
          LET a == lastLogout'.access
              left == (a.iat + AccessExpiry) - now
          IN IF left > 0
             THEN /\ <<"blacklist", a>> \in DOMAIN cacheStore'
                  /\ cacheStore'[<<"blacklist", a>>].ttl = left
             ELSE cacheStore' = cacheStore]_vars

\* the actions the tables ur and rp grant u
GrantedWith(u, ur, rp) ==
    { a \in Perms :
        permActive[a] /\ \E r \in Roles : roleActive[r] /\ <<u, r>> \in ur /\ <<r, a>> \in rp }

\* the table of the open transaction once it has committed
TxAfter == { x \in tx.before : x[1] # tx.key } \cup { <<tx.key, i>> : i \in tx.ids }

\* C27: while a reassignment of a user's roles or of a role's permissions is
\* under way, the table every reader sees is the complete old one or the
\* complete new one, and a permission check running in between resolves the
\* set of the old or of the new assignment, never of the emptied one
C27_ReassignmentAtomic ==
    /\ [](tx.op = "assignRoles" => userRoles \in {tx.before, TxAfter})
    /\ [](tx.op = "assignPermissions" => rolePermissions \in {tx.before, TxAfter})
    /\ [][(lastCall' # lastCall /\ tx.op = "assignRoles") =>
            gate'.userPermissions \in
                { GrantedWith(gate'.user, tx.before, rolePermissions),
                  GrantedWith(gate'.user, TxAfter, rolePermissions) }]_vars
    /\ [][(lastCall' # lastCall /\ tx.op = "assignPermissions") =>
            gate'.userPermissions \in
                { GrantedWith(gate'.user, userRoles, tx.before),
                  GrantedWith(gate'.user, userRoles, TxAfter) }]_vars

\* C27 witness: a check of the user whose roles are being replaced ran between
\* the delete and the insert and resolved a non-empty set
C27_Witness ==
    /\ lastCall.op = "authorize"
    /\ lastCall.ran = <<"assignRoles", "create">>
    /\ lastCall.subject = lastCall.tenant
    /\ gate.user = lastCall.subject
    /\ gate.userPermissions # {}

C29_OneUserPerEmailAndOrg ==
    /\ [](\A x, y \in UserRows :
            (x.email = y.email /\ x.organizationId = y.organizationId) => x = y)
    /\ [][lastCall' # lastCall =>
            LET o == OrgBySlug(lastCall'.tenant)
                taken == o # Null /\ ExistingUser(UserRows, lastCall'.subject, o)
            IN /\ (o # Null /\ orgActive[o] /\ taken) =>
                     /\ lastCall'.out = "Conflict"
                     /\ newUsers' = newUsers
                     /\ userRoles' = userRoles
               /\ (o # Null /\ orgActive[o] /\ ~taken) =>
                     lastCall'.out \in {"creating", "created"}
               /\ lastCall'.out = "created" =>
                     /\ Cardinality(newUsers') = Cardinality(newUsers) + 1
                     /\ ExistingUser(newUsers', lastCall'.subject, o)]_vars

\* C29 witness: the same email is registered in both organizations, and the
\* last of two concurrent registers of one pair lost at the create
C29_Witness ==
    /\ \E x, y \in newUsers : x.email = y.email /\ x.organizationId # y.organizationId
    /\ lastCall.op = "register"
    /\ lastCall.ran = <<"check", "create">>
    /\ lastCall.out = "Conflict"

\* the order every route behind the gate is to follow
ChainOrder == <<"authenticate", "resolveTenant", "authorize", "controller">>

\* C30: on every route that uses the gate, what runs for a request is a
\* beginning of authenticate, resolveTenant, authorize, controller: authorize
\* runs only after both others have passed, and the chain goes on to the next
\* step only when the request is not refused
C30_GateAfterTenant ==
    [][lastCall' # lastCall =>
          LET ran == lastCall'.ran
          IN /\ Len(ran) \in 1..Len(ChainOrder)
             /\ ran = SubSeq(ChainOrder, 1, Len(ran))
             /\ lastCall'.out = "ok" <=> ran = ChainOrder]_vars

\* The permission resolver in front of a cache server, among the management
\* calls that invalidate its entries.
NextStale ==
    \/ \E u \in Users : AuthorizeLookup("p1", u, <<"USER_READ">>) /\ UNCHANGED <<hist, client>>
    \/ AuthorizeStore("p1", <<"USER_READ">>) /\ UNCHANGED <<hist, client>>
    \/ \E roleIds \in SUBSET SeedRoles :
          /\ AssignRoles("u1", "o1", roleIds)
          /\ ObserveCall("assignRoles", "u1", "o1", AssignRolesAnswer("u1", "o1", roleIds))
          /\ Invalidate("assignRoles", "u1", AssignRolesAnswer("u1", "o1", roleIds))
          /\ UNCHANGED <<client, won, replayed, forced, loggedOut, lastLogin, lastRefresh,
                         prevGate, handled, lastLogout>>
    \/ /\ DeactivateUser("u1")
       /\ ObserveCall("deactivateUser", "u1", "o1", "ok")
       /\ Invalidate("deactivateUser", "u1", "ok")
       /\ UNCHANGED <<client, won, replayed, forced, loggedOut, lastLogin, lastRefresh,
                      prevGate, handled, lastLogout>>
    \/ \E u \in Users :
          /\ ForceLogout(u)
          /\ ObserveCall("forceLogout", u, UserOrg(u), "ok")
          /\ Invalidate("forceLogout", u, "ok")
          /\ UNCHANGED <<client, won, replayed, forced, loggedOut, lastLogin, lastRefresh,
                         prevGate, handled, lastLogout>>
    \/ \E active \in BOOLEAN :
          /\ UpdateRole("r1", "o1", active)
          /\ ObserveCall("updateRole", "r1", "o1", UpdateRoleAnswer("r1", "o1"))
          /\ Invalidate("updateRole", "r1", UpdateRoleAnswer("r1", "o1"))
          /\ UNCHANGED <<client, won, replayed, forced, loggedOut, lastLogin, lastRefresh,
                         prevGate, handled, lastLogout>>
    \/ /\ DeleteRole("r1", "o1")
       /\ ObserveCall("deleteRole", "r1", "o1", UpdateRoleAnswer("r1", "o1"))
       /\ Invalidate("deleteRole", "r1", UpdateRoleAnswer("r1", "o1"))
       /\ UNCHANGED <<client, won, replayed, forced, loggedOut, lastLogin, lastRefresh,
                      prevGate, handled, lastLogout>>
    \/ \E permIds \in SUBSET Perms :
          /\ AssignPermissions("r1", "o1", permIds)
          /\ ObserveCall("assignPermissions", "r1", "o1", AssignPermissionsAnswer("r1", "o1"))
          /\ Invalidate("assignPermissions", "r1", AssignPermissionsAnswer("r1", "o1"))
          /\ UNCHANGED <<client, won, replayed, forced, loggedOut, lastLogin, lastRefresh,
                         prevGate, handled, lastLogout>>
    \/ \E active \in BOOLEAN :
          /\ UpdatePermission("USER_READ", active)
          /\ ObserveCall("updatePermission", "USER_READ", Null, "ok")
          /\ Invalidate("updatePermission", "USER_READ", "ok")
          /\ UNCHANGED <<client, won, replayed, forced, loggedOut, lastLogin, lastRefresh,
                         prevGate, handled, lastLogout>>

SpecStale == Init /\ [][NextStale]_vars

\* The reassignment of roles among the changes of the roles' state.
\* the roleIds arrays a caller can send
RoleLists ==
    { ids \in UNION { [1..n -> Roles] : n \in 0..2 } :
        \A i, j \in 1..Len(ids) : i # j => ids[i] # ids[j] }

ObserveAssign(u, o, ids) ==
    lastCall' = [op |-> "assignRoles", subject |-> u, tenant |-> o, ran |-> ids,
                 out |-> AssignRolesAnswer(u, o, { ids[i] : i \in 1..Len(ids) }),
                 n |-> 1 - lastCall.n]

NextAssign ==
    \/ \E u \in Users, o \in Orgs, ids \in RoleLists :
          /\ AssignRoles(u, o, { ids[i] : i \in 1..Len(ids) })
          /\ ObserveAssign(u, o, ids)
          /\ UNCHANGED <<outside, won, replayed, forced, loggedOut, lastLogin, lastRefresh,
                         prevGate, handled, lastLogout>>
    \/ \E active \in BOOLEAN : UpdateRole("r1", "o1", active) /\ UNCHANGED <<hist, outside>>
    \/ DeleteRole("r1", "o1") /\ UNCHANGED <<hist, outside>>

SpecAssign == Init /\ [][NextAssign]_vars

\* authenticate in front of a cache that can fail, for the tokens of one
\* session and their copies with a foreign signature.
ForgedAccess == { [a EXCEPT !.sig = "forged"] : a \in IssuedAccess }

ObserveAuth(tok, lookup) ==
    lastCall' = [op |-> "authenticate", subject |-> AuthenticateOn(tok, lookup).user.id,
                 tenant |-> AuthenticateOn(tok, lookup).user.organizationId,
                 ran |-> <<lookup>>, out |-> AuthenticateOn(tok, lookup).out,
                 n |-> 1 - lastCall.n]

NextDegrade ==
    \/ Tick /\ UNCHANGED <<hist, outside>>
    \/ LoginStart("p1", "acme", "a@x", "pw1") /\ UNCHANGED <<hist, outside>>
    \/ \E ok \in BOOLEAN : LoginIssue("p1", ok) /\ UNCHANGED <<hist, outside>>
    \/ \E a \in IssuedAccess \cup ForgedAccess, lookup \in Lookups :
          /\ AuthenticateLookup(a, lookup)
          /\ ObserveAuth(a, lookup)
          /\ UNCHANGED <<outside, won, replayed, forced, loggedOut, lastLogin, lastRefresh,
                         prevGate, handled, lastLogout>>

SpecDegrade == Init /\ [][NextDegrade]_vars

\* The first session of u1 through a deactivation and a reactivation of its owner.
\* The record of a (de)activation keeps whether the last refresh before it was
\* refused for the owner being inactive.
ObserveActivation(op, u) ==
    lastCall' = [op |-> op, subject |-> u, tenant |-> UserOrg(u),
                 ran |-> IF lastRefresh.out = "deactivated" THEN <<"refused">> ELSE << >>,
                 out |-> "ok", n |-> 0]

NextDeactivate ==
    \/ Tick /\ UNCHANGED <<hist, outside>>
    \/ /\ LoginStart("p1", "acme", "a@x", "pw1")
       /\ ObserveLoginStart("acme", "a@x", "pw1")
       /\ UNCHANGED <<outside, won, replayed, forced, loggedOut, lastRefresh, prevGate,
                      handled, lastLogout, lastCall>>
    \/ \E ok \in BOOLEAN :
          /\ LoginIssue("p1", ok)
          /\ ObserveLoginIssue(ok)
          /\ UNCHANGED <<outside, won, replayed, forced, loggedOut, lastRefresh, prevGate,
                         handled, lastLogout, lastCall>>
    \/ \E t \in { x \in Presentable : x.fam = 1 } :
          /\ RefreshStart("p1", t)
          /\ ObserveRefresh(t)
          /\ UNCHANGED <<outside, won, replayed, forced, loggedOut, lastLogin, prevGate,
                         handled, lastLogout, lastCall>>
    \/ RefreshReplay("p1") /\ UNCHANGED <<hist, outside>>
    \/ RefreshRevokeOld("p1") /\ UNCHANGED <<hist, outside>>
    \/ RefreshCreateNew("p1") /\ UNCHANGED <<hist, outside>>
    \/ /\ DeactivateUser("u1")
       /\ ObserveActivation("deactivateUser", "u1")
       /\ UNCHANGED <<outside, won, replayed, forced, loggedOut, lastLogin, lastRefresh,
                      prevGate, handled, lastLogout>>
    \/ /\ ActivateUser("u1")
       /\ ObserveActivation("activateUser", "u1")
       /\ UNCHANGED <<outside, won, replayed, forced, loggedOut, lastLogin, lastRefresh,
                      prevGate, handled, lastLogout>>

SpecDeactivate == Init /\ [][NextDeactivate]_vars

\* The forced logout as a route, with a session open in each organization.
NextForceRoute ==
    \/ Tick /\ UNCHANGED <<hist, outside>>
    \/ \E route \in Routes, a \in IssuedAccess, perm \in Perms, target \in Users :
          /\ RouteRequest(route, [token |-> a, claimed |-> "-"], <<perm>>, target)
          /\ ObserveRoute(route, [token |-> a, claimed |-> "-"], <<perm>>)
          /\ UNCHANGED <<outside, won, replayed, forced, loggedOut, lastLogin, lastRefresh,
                         prevGate, handled, lastLogout>>

SpecForceRoute == InitLogout /\ [][NextForceRoute]_vars

\* The page of a logged-in client sends its two requests side by side
\* (UsersPage.load) on the session u1 opened by a login at time 0.
InitClient ==
    /\ now = 0
    /\ refreshTokens = {NewRow(SignRefresh("u1", UserOrg("u1"), 1, 0), "u1", 1, 0)}
    /\ userActive = [u \in Users |-> TRUE]
    /\ nextFamily = 2
    /\ cacheStore = << >>
    /\ pc = [p \in Procs |-> "idle"]
    /\ req = [p \in Procs |-> Idle]
    /\ lastAuth = [tok |-> NoToken, out |-> "none"]
    /\ won = {}
    /\ replayed = {}
    /\ forced = {}
    /\ loggedOut = {}
    /\ userRoles = {<<"u1", "r1">>, <<"u2", "r2">>}
    /\ roleActive = [r \in Roles |-> TRUE]
    /\ rolePermissions = {<<"r1", "USER_READ">>, <<"r2", "USER_READ">>, <<"r2", "USER_DELETE">>}
    /\ permActive = [a \in Perms |-> TRUE]
    /\ gate = NoGate
    /\ orgActive = [o \in Orgs |-> TRUE]
    /\ lastLogin = NoLogin
    /\ lastRefresh = NoRefresh
    /\ prevGate = [g |-> NoGate, n |-> 0]
    /\ handled = NoRequest
    /\ tx = NoTx
    /\ newUsers = {}
    /\ lastLogout = NoLogout
    /\ lastCall = NoCall
    /\ redis = {}
    /\ client = SetTokens(NoClient, SignAccess("u1", UserOrg("u1"), 0),
                          SignRefresh("u1", UserOrg("u1"), 1, 0))

NextClient ==
    \/ Tick /\ UNCHANGED <<hist, outside>>
    \/ \E p \in Procs : ClientRequest(p) /\ UNCHANGED <<hist, redis>>
    \/ \E p \in Procs : ClientOn401(p) /\ UNCHANGED <<hist, redis>>
    \/ \E p \in Procs : RefreshReplay(p) /\ ClientOnRefresh(p) /\ UNCHANGED <<hist, redis>>
    \/ \E p \in Procs : RefreshRevokeOld(p) /\ ClientOnRefresh(p) /\ UNCHANGED <<hist, redis>>
    \/ \E p \in Procs : RefreshCreateNew(p) /\ ClientOnRefresh(p) /\ UNCHANGED <<hist, redis>>
    \/ \E p \in Procs : ClientRetry(p) /\ UNCHANGED <<hist, redis>>

SpecClient == InitClient /\ [][NextClient]_vars

\* C31: once forceLogout(u) and every refresh in flight with it have settled,
\* no row of a family that u held when forceLogout ran is left non-revoked
C31_ForceBeatsRotation ==
    AllIdle => \A t \in forced : ActiveOfFamily(refreshTokens, RowOf(t).family) = {}

\* the live permission entries of the cache server
LiveEntries == { e \in redis : e.key[1] = "permissions" /\ now < e.until }

UserLevel == {"assignRoles", "deactivateUser", "forceLogout"}

RoleLevel == {"updateRole", "deleteRole", "assignPermissions", "updatePermission"}

C34_NoEscalation ==
    [][(lastCall' # lastCall /\ lastCall'.op = "assignRoles") =>
          LET u == lastCall'.subject
              o == lastCall'.tenant
              ids == Range(lastCall'.ran)
              accessible(r) == roleActive[r] /\ (RoleOrg(r) = o \/ RoleOrg(r) = Null)
          IN /\ (UserOrg(u) = o /\ \E r \in ids : ~accessible(r)) =>
                   lastCall'.out = "BadRequest"
             /\ lastCall'.out # "ok" => userRoles' = userRoles
             /\ lastCall'.out = "ok" =>
                   /\ { x \in userRoles' : x[1] = u } = { <<u, r>> : r \in ids }
                   /\ { x \in userRoles' : x[1] # u } = { x \in userRoles : x[1] # u }
             /\ \A x \in userRoles' : x \notin userRoles => accessible(x[2])]_vars

\* a reassignment of u1 that names the deactivated role r1 was refused
C34_Witness ==
    /\ lastCall.op = "assignRoles"
    /\ lastCall.subject = "u1"
    /\ lastCall.tenant = "o1"
    /\ "r1" \in Range(lastCall.ran)
    /\ ~roleActive["r1"]
    /\ lastCall.out = "BadRequest"

\* C35: when the blacklist lookup fails, a token with a valid signature and an
\* unexpired claim is accepted and req.user is filled from its claims exactly as
\* when the lookup finds nothing; a token with a foreign signature or an expired
\* claim is refused with Unauthorized whatever the cache does
C35_CacheFailureLetsThrough ==
    [][(lastCall' # lastCall /\ lastCall'.op = "authenticate") =>
          LET tok == lastAuth'.tok
              valid == tok.sig = "access" /\ now < tok.iat + AccessExpiry
              user == [id |-> lastCall'.subject, organizationId |-> lastCall'.tenant]
          IN /\ (valid /\ lastCall'.ran = <<"error">>) =>
                   /\ lastCall'.out = "ok"
                   /\ user = [id |-> tok.sub, organizationId |-> tok.org]
                   /\ user = AuthenticateOn(tok, "null").user
                   /\ lastCall'.out = AuthenticateOn(tok, "null").out
             /\ ~valid =>
                   /\ lastCall'.out = "Unauthorized:invalid"
                   /\ user = NoUser]_vars

\* the token of u1 was let through while the cache could not be reached
C35_Witness ==
    /\ lastCall.op = "authenticate"
    /\ lastCall.ran = <<"error">>
    /\ lastCall.out = "ok"
    /\ lastCall.subject = "u1"
    /\ lastAuth.tok \in IssuedAccess

\* C36: deactivateUser(u) and activateUser(u) leave the refresh tokens of u as
\* they are; a stored, unrevoked, unexpired token of u is refused by refresh
\* while u is inactive and keeps isRevoked = false, and is rotated when u is
\* active, so again after activateUser(u); login of u fails while u is inactive
C36_DeactivationKeepsTokens ==
    /\ [][userActive' # userActive => refreshTokens' = refreshTokens]_vars
    /\ [][lastRefresh' # lastRefresh =>
            LET t == lastRefresh'.tok
            IN ( /\ JwtVerify(t, "refresh", RefreshExpiry, now)
                 /\ Stored(t)
                 /\ ~RowOf(t).isRevoked
                 /\ now <= RowOf(t).expiresAt )
               => IF userActive[RowOf(t).userId]
                  THEN lastRefresh'.out = "rotate"
                  ELSE /\ lastRefresh'.out = "deactivated"
                       /\ refreshTokens' = refreshTokens]_vars
    /\ [][(lastLogin' # lastLogin /\ lastLogin.out # "issuing" /\ ~userActive["u1"]) =>
            lastLogin'.out = "Unauthorized:Invalid credentials"]_vars

\* the token u1 held before the deactivation was refused while u1 was inactive
\* and is rotated after the reactivation
C36_Witness ==
    /\ lastCall.op = "activateUser"
    /\ lastCall.ran = <<"refused">>
    /\ lastRefresh.out = "rotate"
    /\ lastRefresh.tok.iat = 0
    /\ lastRefresh.at > 0
    /\ userActive["u1"]

\* the rows of the users that belong to another organization than o
RowsOutside(rows, o) == { r \in rows : UserOrg(r.userId) # o }

\* C37: a force-logout request of an authenticated caller of one organization
\* changes neither the refresh tokens nor the cached permissions of a user of
\* another organization
C37_ForceLogoutStaysInTenant ==
    [][(lastCall' # lastCall /\ lastCall'.op = "force-logout" /\ lastCall'.tenant \in Orgs) =>
          /\ RowsOutside(refreshTokens', lastCall'.tenant)
                = RowsOutside(refreshTokens, lastCall'.tenant)
          /\ cacheStore' = cacheStore]_vars

\* the refresh token the issuer signs for request p
IssuedBy(p) ==
    IF pc[p] = "login_issue"
    THEN SignRefresh(req[p].user, UserOrg(req[p].user), nextFamily, now)
    ELSE req[p].newTok

\* C38: the refresh token the issuer is about to persist is a string that no
\* stored row carries, so the insert never fails on the unique token column,
\* also when the family was issued for in the same second
C38_IssuedTokenIsNew ==
    [][\A p \in Procs : IssuerRuns(p) =>
          /\ ~Stored(IssuedBy(p))
          /\ \E r \in refreshTokens' : r.token = IssuedBy(p) /\ ~r.isRevoked]_vars

\* the request of the client has run to its end
Settled(p) == client.at[p] \in {"done", "error", "loggedout"}

\* C39: each request of the client refreshes at most once and retries at most
\* once, and when two requests that both met a 401 and refreshed have settled,
\* the client holds a refresh token that is stored and not revoked
C39_ClientSurvivesExpiry ==
    /\ \A p \in Procs : client.refreshes[p] <= 1 /\ client.retries[p] <= 1
    /\ (\A p \in Procs : Settled(p) /\ client.refreshes[p] = 1) =>
          /\ client.refresh # NoToken
          /\ Stored(client.refresh)
          /\ ~RowOf(client.refresh).isRevoked

====
